---- MODULE Spec2Model ----
(***************************************************************************)
(* Model of the finance tracker's pure logic: the Indian-numbering         *)
(* number-to-words formatter (src/utils/numberToWordsIndian.ts), the       *)
(* Entries view (filter, sort, pagination; Entries component in            *)
(* src/components/Settings.tsx) and the Dashboard view (time-window        *)
(* filter, sort; src/unnamed/part_002).                                    *)
(*                                                                         *)
(* Strings that the code assembles are sequences of tokens: a word of the  *)
(* vocabulary is one token and every blank is the token " ", so that       *)
(* spacing, trimming and joining are computed and not assumed.             *)
(* A JavaScript number that may carry a fractional part is a record of its *)
(* integer part and its fraction in units of 1/Den.                        *)
(***************************************************************************)
EXTENDS Integers, Sequences, FiniteSets, TLC

VARIABLES
  fpc,      \* "idle", or "returned" when a call of numberToWordsIndian returned
  num,      \* the argument of that call, a JsNum
  words     \* the string it returned, as a token sequence

\* State of the Entries component (Settings.tsx:782-806)
VARIABLES
  entries,          \* useState<Entry[]>
  searchTerm,       \* useState('')
  filterConfig,     \* useState<FilterConfig>
  sortConfig,       \* useState({key, direction})
  currentPage,      \* useState(1)
  entriesPerPage    \* useState(10)

\* State of the Dashboard component besides entries and sortConfig
\* (part_002:56-69)
VARIABLES
  filter,           \* useState<string>('Current Month')
  customRange,      \* useState({startDate, endDate})
  now,              \* the instant new Date() gave to the latest computation
                    \* of the useMemo filteredEntries
  today             \* new Date().toISOString().split('T')[0] of the latest
                    \* render (line 69)

\* The browser
VARIABLES
  route,            \* the view the router shows: "entries" or "dashboard"
  tz,               \* offset of the local time zone from UTC, in ticks, that
                    \* the Date methods of the mounted Dashboard use
  invalidDateLog    \* the 'Invalid entry date in filter' lines written to the
                    \* console by the latest computation of filteredEntries

\* The persistence subscription (onSnapshot)
VARIABLES
  snapshot          \* snapshot.docs of the latest snapshot delivered to the
                    \* listener of the mounted view: a set of documents

\* The document that generatePDF wrote last (Settings.tsx:1217-1239)
VARIABLES
  pdf               \* [text: the string given to doc.text, filename: the one
                    \* given to doc.save], both empty before the first one

\* The Firestore database (api.ts:1-20)
VARIABLES
  entriesCol,       \* the ids of the documents of the collection 'entries'
  settingsDoc,      \* the document settings/config: <<>> while it does not
                    \* exist, else <<its data>>
  usedIds,          \* the document ids that addDoc has generated so far
  saves             \* how many setDoc calls of saveSettings have completed

\* State of the Entries component around its dialog and its row buttons
\* (Settings.tsx:783-784, 804) and the calls it has in flight
VARIABLES
  editingEntry,     \* useState<Entry | null>: <<>> for null, else <<entry>>
  isDialogOpen,     \* useState(false)
  isDeleting,       \* useState<string | null>: <<>> for null, else <<id>>
  del,              \* the call of handleDelete and of deleteEntry inside it
  sub               \* the call of onSubmit and of updateEntry inside it

\* State of the Settings component (Settings.tsx:63-72), the browser's
\* localStorage and the calls the component has in flight
VARIABLES
  settingsState,    \* settings, useState<SettingsData | null>: <<>> for null,
                    \* else <<data>>
  localSettings,    \* localStorage 'settings': <<>> while unset, else <<data>>
  isLoading,        \* useState(false)
  isImporting,      \* useState(false)
  isResetting,      \* useState(false)
  save,             \* the call of onSubmit (the settings form)
  imp,              \* the call of handleCSVImport
  rst,              \* the call of handleResetEntries and of resetEntries
  gs                \* the calls of getSettings, one per client

fvars == <<fpc, num, words>>
svars == <<entriesCol, settingsDoc, usedIds, saves>>
xvars == <<editingEntry, isDialogOpen, isDeleting, del, sub>>
pvars == <<settingsState, localSettings, isLoading, isImporting, isResetting, save, imp, rst, gs>>
avars == <<svars, xvars, pvars>>
evars == <<entries, searchTerm, filterConfig, sortConfig, currentPage, entriesPerPage>>
dvars == <<filter, customRange, now, today>>
vars == <<fvars, evars, dvars, route, tz, invalidDateLog, snapshot, pdf, avars>>

-----------------------------------------------------------------------------
(* Bounds and representation *)

Den == 2                  \* fractional parts are multiples of 1/Den

Sp == " "
JsUndefined == <<"#undefined">>   \* the JavaScript value undefined (not a string)

\* String(v) as done by a template literal `${v}`
TemplateStr(v) == IF v = JsUndefined THEN <<"undefined">> ELSE v

\* A non-negative JavaScript number: integer part i and fraction f/Den
JsNum(n, k) == [i |-> n, f |-> k]
Whole(n) == JsNum(n, 0)
IsInt(x) == x.f = 0
IsZero(x) == x.i = 0 /\ x.f = 0
Floor(x) == x.i                           \* Math.floor(x)
Mod(x, m) == JsNum(x.i % m, x.f)         \* x % m, m a positive integer
LessThan(x, m) == x.i < m                 \* x < m, m an integer

-----------------------------------------------------------------------------
(* src/utils/numberToWordsIndian.ts *)

units == <<"", "One", "Two", "Three", "Four", "Five", "Six", "Seven",
           "Eight", "Nine">>
teens == <<"Ten", "Eleven", "Twelve", "Thirteen", "Fourteen", "Fifteen",
           "Sixteen", "Seventeen", "Eighteen", "Nineteen">>
tens == <<"", "", "Twenty", "Thirty", "Forty", "Fifty", "Sixty", "Seventy",
          "Eighty", "Ninety">>

\* arr[x] for a JavaScript array of strings and a number x: undefined unless
\* x is an integer index inside the array; the string '' is <<>>
Index(arr, x) ==
  IF IsInt(x) /\ x.i < Len(arr)
  THEN (IF arr[x.i + 1] = "" THEN <<>> ELSE <<arr[x.i + 1]>>)
  ELSE JsUndefined

\* convertTwoDigits that drops the unit of 21..99 (returns tens[ten] alone)
convertTwoDigits_NoUnit(x) ==
  IF IsZero(x) THEN <<>>
  ELSE IF LessThan(x, 10) THEN Index(units, x)
  ELSE IF LessThan(x, 20) THEN Index(teens, JsNum(x.i - 10, x.f))
  ELSE Index(tens, Whole(Floor(x) \div 10))

\* convertTwoDigits(num)
convertTwoDigits(x) ==
  IF IsZero(x) THEN <<>>
  ELSE IF LessThan(x, 10) THEN Index(units, x)
  ELSE IF LessThan(x, 20) THEN Index(teens, JsNum(x.i - 10, x.f))
  ELSE LET ten == Whole(Floor(x) \div 10)        \* Math.floor(num / 10)
           unit == Mod(x, 10)                   \* num % 10
       IN IF IsZero(unit) THEN Index(tens, ten)
          ELSE TemplateStr(Index(tens, ten)) \o <<Sp>> \o TemplateStr(Index(units, unit))

\* The five buckets of numberToWordsIndian (lines 41-45); the first four are
\* integers (Math.floor), remainder keeps the fractional part of num
crore(x) == Floor(x) \div 10000000
lakh(x) == Floor(Mod(x, 10000000)) \div 100000
thousand(x) == Floor(Mod(x, 100000)) \div 1000
hundred(x) == Floor(Mod(x, 1000)) \div 100
remainder(x) == Mod(x, 100)

\* the pushes with the guard of the lakh bucket written as >= 0
Parts_LakhAlways(x) ==
  (IF crore(x) > 0
     THEN << TemplateStr(convertTwoDigits(Whole(crore(x)))) \o <<Sp, "Crore">> >> ELSE <<>>)
  \o << TemplateStr(convertTwoDigits(Whole(lakh(x)))) \o <<Sp, "Lakh">> >>
  \o (IF thousand(x) > 0
     THEN << TemplateStr(convertTwoDigits(Whole(thousand(x)))) \o <<Sp, "Thousand">> >> ELSE <<>>)
  \o (IF hundred(x) > 0
     THEN << TemplateStr(Index(units, Whole(hundred(x)))) \o <<Sp, "Hundred">> >> ELSE <<>>)
  \o (IF ~IsZero(remainder(x)) THEN << convertTwoDigits(remainder(x)) >> ELSE <<>>)

\* parts after the five pushes (lines 47-70)
Parts(x) ==
  (IF crore(x) > 0
     THEN << TemplateStr(convertTwoDigits(Whole(crore(x)))) \o <<Sp, "Crore">> >> ELSE <<>>)
  \o (IF lakh(x) > 0
     THEN << TemplateStr(convertTwoDigits(Whole(lakh(x)))) \o <<Sp, "Lakh">> >> ELSE <<>>)
  \o (IF thousand(x) > 0
     THEN << TemplateStr(convertTwoDigits(Whole(thousand(x)))) \o <<Sp, "Thousand">> >> ELSE <<>>)
  \o (IF hundred(x) > 0
     THEN << TemplateStr(Index(units, Whole(hundred(x)))) \o <<Sp, "Hundred">> >> ELSE <<>>)
  \o (IF ~IsZero(remainder(x)) THEN << convertTwoDigits(remainder(x)) >> ELSE <<>>)

\* the splice done whenever parts is not empty (length > 0 in place of > 1)
WithAnd_Always(parts) ==
  IF Len(parts) > 0
  THEN SubSeq(parts, 1, Len(parts) - 1) \o << <<"and">> >> \o << parts[Len(parts)] >>
  ELSE parts

\* parts.splice(parts.length - 1, 0, 'and') when more than one unit is non-zero
WithAnd(parts) ==
  IF Len(parts) > 1
  THEN SubSeq(parts, 1, Len(parts) - 1) \o << <<"and">> >> \o << parts[Len(parts)] >>
  ELSE parts

\* Array.prototype.join(' '): undefined elements are rendered as ''
RECURSIVE Join(_)
Join(parts) ==
  IF Len(parts) = 0 THEN <<>>
  ELSE LET el == IF parts[1] = JsUndefined THEN <<>> ELSE parts[1]
       IN IF Len(parts) = 1 THEN el ELSE el \o <<Sp>> \o Join(Tail(parts))

\* String.prototype.trim()
RECURSIVE TrimLeft(_)
TrimLeft(s) == IF s # <<>> /\ s[1] = Sp THEN TrimLeft(Tail(s)) ELSE s
RECURSIVE TrimRight(_)
TrimRight(s) ==
  IF s # <<>> /\ s[Len(s)] = Sp THEN TrimRight(SubSeq(s, 1, Len(s) - 1)) ELSE s
Trim(s) == TrimRight(TrimLeft(s))

numberToWordsIndian(x) ==
  IF IsZero(x) THEN <<"Zero">>
  ELSE Trim(Join(WithAnd(Parts(x))))

-----------------------------------------------------------------------------
(* src/unnamed/part_001: the recursive numberToWordsIndian *)

\* numToWords(n), n a non-negative integer (part_001:42-71)
RECURSIVE numToWords(_)
numToWords(n) ==
  IF n = 0 THEN <<>>
  ELSE IF n < 10 THEN Index(units, Whole(n))
  ELSE IF n < 20 THEN Index(teens, Whole(n - 10))
  ELSE IF n < 100 THEN
    TemplateStr(Index(tens, Whole(n \div 10)))
      \o (IF n % 10 # 0 THEN <<Sp>> \o Index(units, Whole(n % 10)) ELSE <<>>)
  ELSE IF n < 1000 THEN
    TemplateStr(Index(units, Whole(n \div 100))) \o <<Sp, "Hundred">>
      \o (IF n % 100 # 0 THEN <<Sp>> \o numToWords(n % 100) ELSE <<>>)
  ELSE IF n < 100000 THEN
    numToWords(n \div 1000) \o <<Sp, "Thousand">>
      \o (IF n % 1000 # 0 THEN <<Sp>> \o numToWords(n % 1000) ELSE <<>>)
  ELSE IF n < 10000000 THEN
    numToWords(n \div 100000) \o <<Sp, "Lakh">>
      \o (IF n % 100000 # 0 THEN <<Sp>> \o numToWords(n % 100000) ELSE <<>>)
  ELSE
    numToWords(n \div 10000000) \o <<Sp, "Crore">>
      \o (IF n % 10000000 # 0 THEN <<Sp>> \o numToWords(n % 10000000) ELSE <<>>)

\* the function without its first line (num === 0 gives the empty string)
numberToWordsRecursive_NoZero(x) == Trim(numToWords(Floor(x)))

\* numberToWordsIndian of part_001 (lines 2-76)
numberToWordsRecursive(x) ==
  IF IsZero(x) THEN <<"Zero">>
  ELSE Trim(numToWords(Floor(x)))

-----------------------------------------------------------------------------
(* JavaScript strings, numbers and dates as the views use them.
   A string is a sequence of one-character strings. *)

UpperChars == <<"A", "B", "C", "D", "E", "F", "G", "H", "I", "J", "K", "L", "M",
                "N", "O", "P", "Q", "R", "S", "T", "U", "V", "W", "X", "Y", "Z">>
LowerChars == <<"a", "b", "c", "d", "e", "f", "g", "h", "i", "j", "k", "l", "m",
                "n", "o", "p", "q", "r", "s", "t", "u", "v", "w", "x", "y", "z">>
DigitChars == <<"0", "1", "2", "3", "4", "5", "6", "7", "8", "9">>

IsUpper(c) == \E i \in 1 .. 26 : UpperChars[i] = c
IsLetter(c) == \E i \in 1 .. 26 : UpperChars[i] = c \/ LowerChars[i] = c
IsDigit(c) == \E i \in 1 .. 10 : DigitChars[i] = c
DigitVal(c) == (CHOOSE i \in 1 .. 10 : DigitChars[i] = c) - 1
LowerChar(c) ==
  IF IsUpper(c) THEN LowerChars[CHOOSE i \in 1 .. 26 : UpperChars[i] = c] ELSE c

\* String.prototype.toLowerCase()
ToLower(s) == [i \in 1 .. Len(s) |-> LowerChar(s[i])]

\* String.prototype.includes(t)
Includes(s, t) ==
  \E i \in 0 .. (Len(s) - Len(t)) : SubSeq(s, i + 1, i + Len(t)) = t

\* Number.prototype.toString() of a non-negative integer
RECURSIVE NumStr(_)
NumStr(n) ==
  IF n < 10 THEN <<DigitChars[n + 1]>>
  ELSE NumStr(n \div 10) \o <<DigitChars[(n % 10) + 1]>>

\* Number(s) of a string of decimal digits; NaN (<<>>) for any other
\* non-empty string, 0 for ''
RECURSIVE DigitsVal(_)
DigitsVal(s) ==
  IF s = <<>> THEN 0 ELSE DigitsVal(SubSeq(s, 1, Len(s) - 1)) * 10 + DigitVal(s[Len(s)])
NaN == <<>>
ToNumber(s) ==
  IF \A i \in 1 .. Len(s) : IsDigit(s[i]) THEN <<DigitsVal(s)>> ELSE NaN

\* Comparisons of two numbers either of which may be NaN (always false then)
Geq(a, b) == a # NaN /\ b # NaN /\ a[1] >= b[1]
Leq(a, b) == a # NaN /\ b # NaN /\ a[1] <= b[1]

(* Calendar. An instant (the time value of a Date) counts ticks since
   1970-01-01T00:00Z, TicksPerDay ticks to the day. *)
TicksPerDay == 4

IsLeap(y) == (y % 4 = 0 /\ y % 100 # 0) \/ y % 400 = 0
DaysInMonth(y, m) ==
  IF m = 2 THEN (IF IsLeap(y) THEN 29 ELSE 28)
  ELSE IF m \in {4, 6, 9, 11} THEN 30 ELSE 31

\* days from 1970-01-01 to the civil date y-m-d
DaysFromCivil(y, m, d) ==
  LET yy == IF m <= 2 THEN y - 1 ELSE y
      era == yy \div 400
      yoe == yy - era * 400
      mp == (m + 9) % 12
      doy == (153 * mp + 2) \div 5 + d - 1
      doe == yoe * 365 + yoe \div 4 - yoe \div 100 + doy
  IN era * 146097 + doe - 719468

\* the civil date <<y, m, d>> of day number z
CivilFromDays(z) ==
  LET zz == z + 719468
      era == zz \div 146097
      doe == zz - era * 146097
      yoe == (doe - doe \div 1460 + doe \div 36524 - doe \div 146096) \div 365
      doy == doe - (365 * yoe + yoe \div 4 - yoe \div 100)
      mp == (5 * doy + 2) \div 153
      d == doy - (153 * mp + 2) \div 5 + 1
      m == IF mp < 10 THEN mp + 3 ELSE mp - 9
      y == yoe + era * 400 + (IF m <= 2 THEN 1 ELSE 0)
  IN <<y, m, d>>

\* date.toISOString().split('T')[0] / format(date, 'yyyy-MM-dd') of a civil date
Pad(n, w) ==
  LET str == NumStr(n)
  IN [i \in 1 .. (w - Len(str)) |-> "0"] \o str
IsoDate(y, m, d) == Pad(y, 4) \o <<"-">> \o Pad(m, 2) \o <<"-">> \o Pad(d, 2)

\* date.toISOString().split('T')[0] of an instant: its date in UTC
ToISODate(t) ==
  LET c == CivilFromDays(t \div TicksPerDay) IN IsoDate(c[1], c[2], c[3])

\* new Date(s).getTime() for a date string s: 'YYYY-MM-DD' naming a calendar
\* date is UTC midnight of that date; the other strings of the model ('' and
\* free text) give an Invalid Date, whose time value is NaN
IsIsoDate(s) ==
  /\ Len(s) = 10
  /\ s[5] = "-" /\ s[8] = "-"
  /\ \A i \in {1, 2, 3, 4, 6, 7, 9, 10} : IsDigit(s[i])
  /\ LET y == DigitsVal(SubSeq(s, 1, 4))
         m == DigitsVal(SubSeq(s, 6, 7))
         d == DigitsVal(SubSeq(s, 9, 10))
     IN m \in 1 .. 12 /\ d \in 1 .. DaysInMonth(y, m)
DateParse(s) ==
  IF IsIsoDate(s)
  THEN << DaysFromCivil(DigitsVal(SubSeq(s, 1, 4)), DigitsVal(SubSeq(s, 6, 7)),
                        DigitsVal(SubSeq(s, 9, 10))) * TicksPerDay >>
  ELSE NaN

\* String.prototype.localeCompare: the collation key of a character is its
\* primary weight (punctuation < digits < letters, case ignored) and, to
\* break ties, lower case before upper case
Weight(c) ==
  IF IsDigit(c) THEN 1 + DigitVal(c)
  ELSE IF IsLetter(c)
       THEN 10 + (CHOOSE i \in 1 .. 26 : LowerChars[i] = LowerChar(c))
       ELSE 0
CaseRank(c) == IF IsUpper(c) THEN 1 ELSE 0
\* the code point of a character
CodePoint(c) ==
  IF IsDigit(c) THEN 48 + DigitVal(c)
  ELSE IF IsUpper(c) THEN 64 + (CHOOSE i \in 1 .. 26 : UpperChars[i] = c)
  ELSE IF IsLetter(c) THEN 96 + (CHOOSE i \in 1 .. 26 : LowerChars[i] = c)
  ELSE IF c = "/" THEN 47 ELSE 45
\* the first difference of s and t by a key of their characters: the letter
\* or the case of the collation, or the code point
RECURSIVE CmpBy(_, _, _)
CmpBy(level, s, t) ==
  LET key(c) == IF level = "case" THEN CaseRank(c)
                ELSE IF level = "letter" THEN Weight(c) ELSE CodePoint(c)
  IN IF s = <<>> /\ t = <<>> THEN 0
     ELSE IF s = <<>> THEN -1
     ELSE IF t = <<>> THEN 1
     ELSE IF key(s[1]) < key(t[1]) THEN -1
     ELSE IF key(s[1]) > key(t[1]) THEN 1
     ELSE CmpBy(level, Tail(s), Tail(t))
LocaleCompare(s, t) ==
  IF CmpBy("letter", s, t) # 0 THEN CmpBy("letter", s, t) ELSE CmpBy("case", s, t)

-----------------------------------------------------------------------------
(* The stored collection and its snapshots.
   A document of the 'entries' collection is a record with the ten fields of
   Entry; a missing string field is '' (data.x || '' gives '' for both). *)

ALL == <<"A", "l", "l">>
INCOME == <<"I", "n", "c", "o", "m", "e">>
EXPENSE == <<"E", "x", "p", "e", "n", "s", "e">>

ReminderValues == {0, 5, 10, 15}

\* The mapping of a snapshot document to an Entry, the same in
\* api.getEntries, the Entries listener and the Dashboard listener
NormalizeDoc(doc) ==
  [ id |-> doc.id,
    name |-> doc.name,
    contact |-> doc.contact,
    type |-> IF doc.type = <<>> THEN INCOME ELSE doc.type,
    category |-> doc.category,
    amount |-> doc.amount,
    date |-> doc.date,
    renewDate |-> doc.renewDate,
    renewDateReminder |->
      IF doc.renewDateReminder \in ReminderValues THEN doc.renewDateReminder ELSE 0,
    property |-> doc.property ]

\* parseFloat(s): the number that the longest prefix of digits spells, NaN
\* when s does not start with a digit
ParseFloat(s) ==
  LET n == CHOOSE k \in 0 .. Len(s) :
             /\ \A i \in 1 .. k : IsDigit(s[i])
             /\ k = Len(s) \/ ~IsDigit(s[k + 1])
  IN IF n = 0 THEN NaN ELSE <<DigitsVal(SubSeq(s, 1, n))>>

\* an import that writes the cell of the renewDateReminder column as it is
CsvEntry_KeepReminder(row, docId, isoToday) ==
  [ id |-> docId,
    name |-> row.name,
    contact |-> row.contact,
    type |-> IF row.type = INCOME \/ row.type = EXPENSE THEN row.type ELSE INCOME,
    category |-> row.category,
    amount |-> IF ParseFloat(row.amount) = NaN THEN 0 ELSE ParseFloat(row.amount)[1],
    date |-> IF row.date # <<>> THEN row.date ELSE isoToday,
    renewDate |-> IF row.renewDate # <<>> THEN row.renewDate ELSE isoToday,
    renewDateReminder |->
      IF ToNumber(row.renewDateReminder) = NaN THEN 0
      ELSE ToNumber(row.renewDateReminder)[1],
    property |-> row.property ]
\* handleCSVImport (Settings.tsx:236-254, 276): the document that addDoc
\* stores for a parsed row, whose cells are strings ('' for a missing one),
\* under the document id docId that the store gives it; isoToday is new
\* Date().toISOString().split('T')[0] at the import
CsvEntry(row, docId, isoToday) ==
  [ id |-> docId,
    name |-> row.name,
    contact |-> row.contact,
    type |-> IF row.type = INCOME \/ row.type = EXPENSE THEN row.type ELSE INCOME,
    category |-> row.category,
    amount |-> IF ParseFloat(row.amount) = NaN THEN 0 ELSE ParseFloat(row.amount)[1],
    date |-> IF row.date # <<>> THEN row.date ELSE isoToday,
    renewDate |-> IF row.renewDate # <<>> THEN row.renewDate ELSE isoToday,
    renewDateReminder |->
      IF /\ ToNumber(row.renewDateReminder) # NaN
         /\ ToNumber(row.renewDateReminder)[1] \in ReminderValues
      THEN ToNumber(row.renewDateReminder)[1]
      ELSE 0,
    property |-> row.property ]

\* Firestore orders string values by their code points
CodeCompare(s, t) == CmpBy("code", s, t)

\* The documents of a set in the order given by the relation before
RECURSIVE OrderedBy(_, _)
OrderedBy(docs, before) ==
  IF docs = {} THEN <<>>
  ELSE LET first == CHOOSE a \in docs : \A b \in docs \ {a} : before[a, b]
       IN <<first>> \o OrderedBy(docs \ {first}, before)

\* query(entriesCol, orderBy('date', 'desc')): by date descending, documents
\* of equal date by document id descending
ByDateDesc(a, b) ==
  \/ CodeCompare(a.date, b.date) > 0
  \/ CodeCompare(a.date, b.date) = 0 /\ CodeCompare(a.id, b.id) > 0
EntriesQuery(docs) == OrderedBy(docs, [a \in docs, b \in docs |-> ByDateDesc(a, b)])

\* the collection without a query: by document id ascending
ByIdAsc(a, b) == CodeCompare(a.id, b.id) < 0
CollectionQuery(docs) == OrderedBy(docs, [a \in docs, b \in docs |-> ByIdAsc(a, b)])

\* snapshot.docs.map(...) over the documents of a snapshot
NormalizeDocs(s) == [i \in 1 .. Len(s) |-> NormalizeDoc(s[i])]

-----------------------------------------------------------------------------
(* Entries component, src/components/Settings.tsx:781-1059 *)

\* Object.values(entry) with each value's toString()
FieldStrings(e) ==
  << e.id, e.name, e.contact, e.type, e.category, NumStr(e.amount), e.date,
     e.renewDate, NumStr(e.renewDateReminder), e.property >>

matchesSearch(e, term) ==
  IF term # <<>>
  THEN \E k \in 1 .. 10 : Includes(ToLower(FieldStrings(e)[k]), ToLower(term))
  ELSE TRUE

matchesName(e, fc) ==
  IF fc.name # <<>> THEN Includes(ToLower(e.name), ToLower(fc.name)) ELSE TRUE

matchesContact(e, fc) ==
  IF fc.contact # <<>> THEN Includes(ToLower(e.contact), ToLower(fc.contact)) ELSE TRUE

matchesType(e, fc) == IF fc.type # ALL THEN e.type = fc.type ELSE TRUE

matchesCategory(e, fc) == IF fc.category # ALL THEN e.category = fc.category ELSE TRUE

\* the bounds of the amount range taken as exclusive (> and < in place of >= and <=)
matchesAmount_Strict(e, fc) ==
  /\ (fc.amountMin # <<>> => ~Leq(<<e.amount>>, ToNumber(fc.amountMin)))
  /\ (fc.amountMax # <<>> => ~Geq(<<e.amount>>, ToNumber(fc.amountMax)))
\* -Infinity and Infinity stand for a bound that is not set
matchesAmount(e, fc) ==
  /\ (fc.amountMin # <<>> => Geq(<<e.amount>>, ToNumber(fc.amountMin)))
  /\ (fc.amountMax # <<>> => Leq(<<e.amount>>, ToNumber(fc.amountMax)))

\* new Date(-8640000000000000) and new Date(8640000000000000) stand for a
\* bound that is not set; an Invalid Date compares false with both
matchesDate(e, fc) ==
  LET entryDate == DateParse(e.date)
  IN /\ entryDate # NaN
     /\ (fc.dateStart # <<>> => Geq(entryDate, DateParse(fc.dateStart)))
     /\ (fc.dateEnd # <<>> => Leq(entryDate, DateParse(fc.dateEnd)))

matchesProperty(e, fc) == IF fc.property # ALL THEN e.property = fc.property ELSE TRUE

\* the callback of entries.filter (lines 941-998)
EntryMatches(e, term, fc) ==
  /\ matchesSearch(e, term)
  /\ matchesName(e, fc)
  /\ matchesContact(e, fc)
  /\ matchesType(e, fc)
  /\ matchesCategory(e, fc)
  /\ matchesAmount(e, fc)
  /\ matchesDate(e, fc)
  /\ matchesProperty(e, fc)

\* a filter that loses the first entry it keeps
EntriesFilter_DropFirst(E, term, fc) ==
  LET kept == SelectSeq(E, LAMBDA e : EntryMatches(e, term, fc))
  IN IF kept = <<>> THEN kept ELSE Tail(kept)
EntriesFilter(E, term, fc) == SelectSeq(E, LAMBDA e : EntryMatches(e, term, fc))

\* The filter callback writes nothing to the console
EntriesFilterLog(E) == <<>>

\* the keys of the column headers (lines 1635-1708)
SortKeys == {"name", "contact", "type", "category", "amount", "date", "monthYear",
             "renewDate", "renewDateReminder", "property"}
KeyString(e, key) ==
  CASE key = "id" -> e.id
    [] key = "name" -> e.name
    [] key = "contact" -> e.contact
    [] key = "type" -> e.type
    [] key = "category" -> e.category
    [] key = "renewDate" -> e.renewDate
    [] key = "renewDateReminder" -> NumStr(e.renewDateReminder)
    [] key = "property" -> e.property
    [] OTHER -> <<"u", "n", "d", "e", "f", "i", "n", "e", "d">>

\* a - b of two numbers either of which may be NaN
Minus(a, b) == IF a = NaN \/ b = NaN THEN NaN ELSE <<a[1] - b[1]>>

\* the comparator of .sort (lines 999-1015): a number, or NaN
EntriesCompare(a, b, sc) ==
  IF sc.key = "date" \/ sc.key = "monthYear"
  THEN (IF sc.direction = "asc"
        THEN Minus(DateParse(a.date), DateParse(b.date))
        ELSE Minus(DateParse(b.date), DateParse(a.date)))
  ELSE IF sc.key = "amount"
  THEN (IF sc.direction = "asc" THEN <<a.amount - b.amount>> ELSE <<b.amount - a.amount>>)
  ELSE (IF sc.direction = "asc"
        THEN <<LocaleCompare(KeyString(a, sc.key), KeyString(b, sc.key))>>
        ELSE <<LocaleCompare(KeyString(b, sc.key), KeyString(a, sc.key))>>)

\* a sort that moves an element before its equals (not stable)
Greater_OrEqual(v) == v # NaN /\ v[1] >= 0
\* Array.prototype.sort(cmp): a stable sort; a comparator result of NaN
\* counts as 0. Insert(sorted, e) puts e behind every element that does not
\* compare greater than it.
Greater(v) == v # NaN /\ v[1] > 0
RECURSIVE Insert(_, _, _)
Insert(sorted, k, c) ==
  IF sorted = <<>> THEN <<k>>
  ELSE IF Greater(c[sorted[Len(sorted)], k])
       THEN Insert(SubSeq(sorted, 1, Len(sorted) - 1), k, c) \o <<sorted[Len(sorted)]>>
       ELSE sorted \o <<k>>
RECURSIVE SortFrom(_, _, _, _)
SortFrom(sorted, k, n, c) ==
  IF k > n THEN sorted ELSE SortFrom(Insert(sorted, k, c), k + 1, n, c)
\* s sorted, c[i, j] being the comparator's result for s[i] and s[j]: the
\* indices of s in sorted order, then the elements
ArraySort(s, c) ==
  LET order == SortFrom(<<>>, 1, Len(s), c)
  IN [i \in 1 .. Len(s) |-> s[order[i]]]

EntriesSort(E, sc) ==
  ArraySort(E, [i \in 1 .. Len(E), j \in 1 .. Len(E) |-> EntriesCompare(E[i], E[j], sc)])

\* the useMemo filteredEntries (lines 939-1016)
filteredEntries ==
  EntriesSort(EntriesFilter(entries, searchTerm, filterConfig), sortConfig)

\* Array.prototype.slice(from, to) with 0 <= from
Slice(s, from, to) ==
  SubSeq(s, from + 1, IF to < Len(s) THEN to ELSE Len(s))

\* the useMemo paginatedEntries (lines 1040-1044)
PaginatedOf(fe, page, perPage) ==
  LET startIndex == (page - 1) * perPage
      endIndex == startIndex + perPage
  IN Slice(fe, startIndex, endIndex)
paginatedEntries == PaginatedOf(filteredEntries, currentPage, entriesPerPage)

\* Math.floor in place of Math.ceil
totalPages_Floor == Len(filteredEntries) \div entriesPerPage
\* Math.ceil(filteredEntries.length / entriesPerPage) (line 1046)
totalPages == (Len(filteredEntries) + entriesPerPage - 1) \div entriesPerPage

DefaultFilterConfig ==
  [ name |-> <<>>, contact |-> <<>>, type |-> ALL, category |-> ALL,
    amountMin |-> <<>>, amountMax |-> <<>>, dateStart |-> <<>>, dateEnd |-> <<>>,
    property |-> ALL ]

\* the callback that leaves the dialog alone
EntriesOnSnapshot_KeepDialog(docs) ==
  /\ route = "entries"
  /\ snapshot' = docs
  /\ entries' = NormalizeDocs(EntriesQuery(docs))
  /\ invalidDateLog' = EntriesFilterLog(entries')
  /\ UNCHANGED <<isDialogOpen, editingEntry>>
  /\ UNCHANGED <<searchTerm, filterConfig, sortConfig, currentPage, entriesPerPage,
                 fvars, dvars, route, tz, pdf, svars, isDeleting, del, sub, pvars>>

\* the onSnapshot callback (lines 874-920) for the documents now stored
EntriesOnSnapshot(docs) ==
  /\ route = "entries"
  /\ snapshot' = docs
  /\ entries' = NormalizeDocs(EntriesQuery(docs))
  /\ invalidDateLog' = EntriesFilterLog(entries')
  /\ IF editingEntry # <<>> /\ (\A d \in docs : d.id # editingEntry[1].id)
     THEN isDialogOpen' = FALSE /\ editingEntry' = <<>>          \* lines 908-918
     ELSE UNCHANGED <<isDialogOpen, editingEntry>>
  /\ UNCHANGED <<searchTerm, filterConfig, sortConfig, currentPage, entriesPerPage,
                 fvars, dvars, route, tz, pdf, svars, isDeleting, del, sub, pvars>>

\* typing in the search box (line 1296), then the page-reset effect (935-937)
SetSearchTerm(v) ==
  /\ route = "entries"
  /\ v # searchTerm
  /\ searchTerm' = v
  /\ currentPage' = 1
  /\ invalidDateLog' = EntriesFilterLog(entries)
  /\ UNCHANGED <<entries, filterConfig, sortConfig, entriesPerPage,
                 fvars, dvars, route, tz, snapshot, pdf, avars>>

\* handleFilterChange (lines 1090-1095), then the page-reset effect
HandleFilterChange(field, value) ==
  /\ route = "entries"
  /\ filterConfig' = [filterConfig EXCEPT ![field] = value]
  /\ currentPage' = 1
  /\ invalidDateLog' = EntriesFilterLog(entries)
  /\ UNCHANGED <<entries, searchTerm, sortConfig, entriesPerPage,
                 fvars, dvars, route, tz, snapshot, pdf, avars>>

\* clearFilters (lines 1097-1110), then the page-reset effect
ClearFilters ==
  /\ route = "entries"
  /\ filterConfig' = DefaultFilterConfig
  /\ searchTerm' = <<>>
  /\ currentPage' = 1
  /\ invalidDateLog' = EntriesFilterLog(entries)
  /\ UNCHANGED <<entries, sortConfig, entriesPerPage,
                 fvars, dvars, route, tz, snapshot, pdf, avars>>

\* handleSort (lines 1048-1053), then the page-reset effect
HandleSort(key) ==
  /\ route = "entries"
  /\ sortConfig' =
       [ key |-> key,
         direction |-> IF sortConfig.key = key /\ sortConfig.direction = "asc"
                       THEN "desc" ELSE "asc" ]
  /\ currentPage' = 1
  /\ invalidDateLog' = EntriesFilterLog(entries)
  /\ UNCHANGED <<entries, searchTerm, filterConfig, entriesPerPage,
                 fvars, dvars, route, tz, snapshot, pdf, avars>>

\* handlePageChange (lines 1055-1059)
HandlePageChange(page) ==
  /\ route = "entries"
  /\ currentPage' = IF page >= 1 /\ page <= totalPages THEN page ELSE currentPage
  /\ UNCHANGED <<entries, searchTerm, filterConfig, sortConfig, entriesPerPage,
                 invalidDateLog, fvars, dvars, route, tz, snapshot, pdf, avars>>

\* the page-size select (lines 1309-1312)
SetEntriesPerPage(value) ==
  /\ route = "entries"
  /\ value # entriesPerPage
  /\ entriesPerPage' = value
  /\ currentPage' = 1
  /\ invalidDateLog' = EntriesFilterLog(entries)
  /\ UNCHANGED <<entries, searchTerm, filterConfig, sortConfig,
                 fvars, dvars, route, tz, snapshot, pdf, avars>>

-----------------------------------------------------------------------------
(* Dashboard component, src/unnamed/part_002:55-386.
   Its entries and sortConfig states are the variables entries and
   sortConfig: the router mounts one view at a time (part_000:27-32). *)

\* Local calendar fields of an instant t: the browser's zone is tz ticks
\* ahead of UTC
LocalCivil(t, zone) == CivilFromDays((t + zone) \div TicksPerDay)
GetMonth(t, zone) == LocalCivil(t, zone)[2] - 1          \* Date.prototype.getMonth()
GetFullYear(t, zone) == LocalCivil(t, zone)[1]           \* Date.prototype.getFullYear()
\* new Date(year, monthIndex, day): local midnight of that date
LocalDate(y, monthIndex, d, zone) ==
  DaysFromCivil(y, monthIndex + 1, d) * TicksPerDay - zone
\* date.setDate(date.getDate() - n): the same local time n days earlier
MinusDays(t, n) == t - n * TicksPerDay

MonthShort == <<"Jan", "Feb", "Mar", "Apr", "May", "Jun", "Jul", "Aug", "Sep",
                "Oct", "Nov", "Dec">>

\* date.toLocaleString('en-US', {month: 'short', year: 'numeric'}): the
\* month name as one token, a blank, the digits of the year
MonthYearLabel(t, zone) ==
  <<MonthShort[GetMonth(t, zone) + 1], Sp>> \o NumStr(GetFullYear(t, zone))

LAST_7_DAYS == <<"Last 7 Days">>
LAST_30_DAYS == <<"Last 30 Days">>
CURRENT_MONTH == <<"Current Month">>
CURRENT_YEAR == <<"Current Year">>
CUSTOM_RANGE == <<"Custom Range">>
Shortcuts == {LAST_7_DAYS, LAST_30_DAYS, CURRENT_MONTH, CURRENT_YEAR, CUSTOM_RANGE}

\* the useMemo uniqueMonths (lines 132-153), as the set of its labels
uniqueMonthsOf(E, zone) ==
  { MonthYearLabel(DateParse(E[i].date)[1], zone) :
      i \in { k \in 1 .. Len(E) : DateParse(E[k].date) # NaN } }

\* filter.replace(' ', '-') followed by split('-'): [month, year]
ReplaceFirstBlank(s) ==
  IF \E i \in 1 .. Len(s) : s[i] = Sp
  THEN LET i == CHOOSE k \in 1 .. Len(s) : s[k] = Sp /\ \A j \in 1 .. (k - 1) : s[j] # Sp
       IN [s EXCEPT ![i] = "-"]
  ELSE s
SplitMonthYear(s) ==
  IF \E i \in 1 .. Len(s) : s[i] = "-"
  THEN LET i == CHOOSE k \in 1 .. Len(s) : s[k] = "-" /\ \A j \in 1 .. (k - 1) : s[j] # "-"
           rest == SubSeq(s, i + 1, Len(s))
           j == IF \E k \in 1 .. Len(rest) : rest[k] = "-"
                THEN (CHOOSE k \in 1 .. Len(rest) :
                        rest[k] = "-" /\ \A h \in 1 .. (k - 1) : rest[h] # "-") - 1
                ELSE Len(rest)
       IN <<SubSeq(s, 1, i - 1), SubSeq(rest, 1, j)>>
  ELSE <<s, JsUndefined>>

\* new Date(`${month} 1, 2000`).getMonth(): NaN unless month is a month name
FilterMonth(month) ==
  IF Len(month) = 1 /\ \E i \in 1 .. 12 : MonthShort[i] = month[1]
  THEN <<(CHOOSE i \in 1 .. 12 : MonthShort[i] = month[1]) - 1>>
  ELSE NaN
\* parseInt(year): the leading digits, NaN if there are none
FilterYear(year) ==
  IF year # JsUndefined /\ year # <<>> /\ IsDigit(year[1])
  THEN LET n == CHOOSE k \in 1 .. Len(year) :
                  /\ \A j \in 1 .. k : IsDigit(year[j])
                  /\ (k = Len(year) \/ ~IsDigit(year[k + 1]))
       IN <<DigitsVal(SubSeq(year, 1, n))>>
  ELSE NaN

\* the callback of entries.filter in the useMemo filteredEntries (156-204)
\* for an entry whose date parsed to the instant entryDate
DashboardKeeps(entryDate, flt, range, clock, zone) ==
  IF flt = LAST_7_DAYS
  THEN entryDate >= MinusDays(clock, 7) /\ entryDate <= clock
  ELSE IF flt = LAST_30_DAYS
  THEN entryDate >= MinusDays(clock, 30) /\ entryDate <= clock
  ELSE IF flt = CURRENT_MONTH
  THEN /\ GetMonth(entryDate, zone) = GetMonth(clock, zone)
       /\ GetFullYear(entryDate, zone) = GetFullYear(clock, zone)
  ELSE IF flt = CURRENT_YEAR
  THEN /\ entryDate >= LocalDate(GetFullYear(clock, zone), 0, 1, zone)
       /\ entryDate <= clock
  ELSE IF flt = CUSTOM_RANGE
  THEN entryDate >= range.startDate /\ entryDate <= range.endDate
  ELSE LET my == SplitMonthYear(ReplaceFirstBlank(flt))
           filterMonth == FilterMonth(my[1])
           filterYear == FilterYear(my[2])
       IN IF filterMonth = NaN \/ filterYear = NaN THEN FALSE
          ELSE /\ GetMonth(entryDate, zone) = filterMonth[1]
               /\ GetFullYear(entryDate, zone) = filterYear[1]

DashboardMatches(e, flt, range, clock, zone) ==
  /\ DateParse(e.date) # NaN
  /\ DashboardKeeps(DateParse(e.date)[1], flt, range, clock, zone)

DashboardFilter(E, flt, range, clock, zone) ==
  SelectSeq(E, LAMBDA e : DashboardMatches(e, flt, range, clock, zone))

\* console.error('Invalid entry date in filter:', entry.date) (lines 158-161)
DashboardFilterLog(E) ==
  LET invalid == SelectSeq(E, LAMBDA e : DateParse(e.date) = NaN)
  IN [i \in 1 .. Len(invalid) |-> invalid[i].date]

\* the comparator of lastFiveEntries (lines 347-363)
DashboardSortKeys == {"name", "type", "amount", "date"}
DashboardCompare(a, b, sc) ==
  IF sc.key = "date"
  THEN (IF sc.direction = "asc"
        THEN Minus(DateParse(a.date), DateParse(b.date))
        ELSE Minus(DateParse(b.date), DateParse(a.date)))
  ELSE IF sc.key = "amount"
  THEN (IF sc.direction = "asc" THEN <<a.amount - b.amount>> ELSE <<b.amount - a.amount>>)
  ELSE (IF sc.direction = "asc"
        THEN <<LocaleCompare(KeyString(a, sc.key), KeyString(b, sc.key))>>
        ELSE <<LocaleCompare(KeyString(b, sc.key), KeyString(a, sc.key))>>)

\* const sorted = [...filteredEntries].sort(...) (line 347)
DashboardSorted(fe, sc) ==
  ArraySort(fe, [i \in 1 .. Len(fe), j \in 1 .. Len(fe) |-> DashboardCompare(fe[i], fe[j], sc)])

\* the useMemo filteredEntries of the Dashboard
dashboardFiltered == DashboardFilter(entries, filter, customRange, now, tz)
\* sorted.slice(0, 5) (line 364)
lastFiveEntries == Slice(DashboardSorted(dashboardFiltered, sortConfig), 0, 5)

\* a listener that adds the documents of the snapshot to the entries it holds
DashboardOnSnapshot_Merge(docs, clock) ==
  /\ route = "dashboard"
  /\ snapshot' = docs
  /\ entries' = entries \o SelectSeq(NormalizeDocs(CollectionQuery(docs)),
                                     LAMBDA e : \A i \in 1 .. Len(entries) : entries[i].id # e.id)
  /\ now' = clock
  /\ today' = ToISODate(clock)
  /\ invalidDateLog' = DashboardFilterLog(entries')
  /\ UNCHANGED <<sortConfig, filter, customRange,
                 searchTerm, filterConfig, currentPage, entriesPerPage, fvars, route, tz, pdf, avars>>
\* the onSnapshot callback (lines 78-110) for the documents now stored; the
\* new entries make filteredEntries recompute at the instant clock
DashboardOnSnapshot(docs, clock) ==
  /\ route = "dashboard"
  /\ snapshot' = docs
  /\ entries' = NormalizeDocs(CollectionQuery(docs))
  /\ now' = clock
  /\ today' = ToISODate(clock)
  /\ invalidDateLog' = DashboardFilterLog(entries')
  /\ UNCHANGED <<sortConfig, filter, customRange,
                 searchTerm, filterConfig, currentPage, entriesPerPage, fvars, route, tz, pdf, avars>>

\* the filter select (line 417): a shortcut or one of uniqueMonths
SetFilter(value, clock) ==
  /\ route = "dashboard"
  /\ value # filter
  /\ value \in Shortcuts \cup uniqueMonthsOf(entries, tz)
  /\ filter' = value
  /\ now' = clock
  /\ today' = ToISODate(clock)
  /\ invalidDateLog' = DashboardFilterLog(entries)
  /\ UNCHANGED <<entries, sortConfig, customRange,
                 searchTerm, filterConfig, currentPage, entriesPerPage, fvars, route, tz, snapshot, pdf, avars>>

\* the DateRangePicker (lines 441-452), shown for 'Custom Range': the
\* selection's dates are local midnights
SetCustomRange(startDay, endDay, clock) ==
  /\ route = "dashboard"
  /\ filter = CUSTOM_RANGE
  /\ customRange' =
       [ startDate |-> LocalDate(startDay[1], startDay[2] - 1, startDay[3], tz),
         endDate |-> LocalDate(endDay[1], endDay[2] - 1, endDay[3], tz) ]
  /\ now' = clock
  /\ today' = ToISODate(clock)
  /\ invalidDateLog' = DashboardFilterLog(entries)
  /\ UNCHANGED <<entries, sortConfig, filter,
                 searchTerm, filterConfig, currentPage, entriesPerPage, fvars, route, tz, snapshot, pdf, avars>>

\* handleSort (lines 367-372); filteredEntries does not depend on sortConfig
DashboardHandleSort(key) ==
  /\ route = "dashboard"
  /\ sortConfig' =
       [ key |-> key,
         direction |-> IF sortConfig.key = key /\ sortConfig.direction = "asc"
                       THEN "desc" ELSE "asc" ]
  /\ UNCHANGED <<entries, filter, customRange, now, today, invalidDateLog,
                 searchTerm, filterConfig, currentPage, entriesPerPage, fvars, route, tz, snapshot, pdf, avars>>

\* String.prototype.replace(token, value) with a string for pattern: the
\* first occurrence of the token in t is replaced, the others are left. A
\* template is the sequence of its pieces, a {{...}} token being one piece.
ReplaceFirst(t, token, value) ==
  IF \E i \in 1 .. Len(t) : t[i] = token
  THEN LET i == CHOOSE k \in 1 .. Len(t) : t[k] = token /\ \A j \in 1 .. (k - 1) : t[j] # token
       IN SubSeq(t, 1, i - 1) \o value \o SubSeq(t, i + 1, Len(t))
  ELSE t

\* generatePDF (lines 1207-1244) for a row of the page, the settings loaded
\* and the currency: the text and the file name of the document. format
\* (date-fns) throws for an Invalid Date, which ends the handler before
\* doc.text.
generatePDF(entry, settings, currency) ==
  /\ route = "entries"
  /\ \E i \in 1 .. Len(paginatedEntries) : paginatedEntries[i] = entry
  /\ IF DateParse(entry.date) = NaN
     THEN pdf' = pdf
     ELSE LET amountInWords == numberToWordsIndian(Whole(entry.amount))
              t == DateParse(entry.date)[1]
              monthYear == <<MonthShort[GetMonth(t, tz) + 1], "-">> \o NumStr(GetFullYear(t, tz))
              t1 == ReplaceFirst(settings.pdfTemplate, "{{id}}", entry.id)
              t2 == ReplaceFirst(t1, "{{name}}", entry.name)
              t3 == ReplaceFirst(t2, "{{contact}}", entry.contact)
              t4 == ReplaceFirst(t3, "{{type}}", entry.type)
              t5 == ReplaceFirst(t4, "{{category}}", entry.category)
              t6 == ReplaceFirst(t5, "{{amount}}", NumStr(entry.amount))
              t7 == ReplaceFirst(t6, "{{amountInWords}}", amountInWords)
              t8 == ReplaceFirst(t7, "{{date}}", entry.date)
              t9 == ReplaceFirst(t8, "{{monthyear}}", monthYear)
              t10 == ReplaceFirst(t9, "{{renewDate}}", entry.renewDate)
              t11 == ReplaceFirst(t10, "{{renewDateReminder}}", NumStr(entry.renewDateReminder))
              t12 == ReplaceFirst(t11, "{{property}}", entry.property)
              template == ReplaceFirst(t12, "{{currency}}",
                            IF currency = "INR" THEN <<"₹">>
                            ELSE IF currency = "USD" THEN <<"$">> ELSE <<>>)
              f1 == ReplaceFirst(settings.pdfFilename, "{{name}}", entry.name)
              f2 == ReplaceFirst(f1, "{{date}}", entry.date)
              filename == ReplaceFirst(f2, "{{type}}", entry.type)
          IN pdf' = [text |-> template, filename |-> filename \o <<".pdf">>]
  /\ UNCHANGED <<evars, dvars, fvars, route, tz, invalidDateLog, snapshot, avars>>

-----------------------------------------------------------------------------
(* Dashboard: totals, summary metrics and reminders (part_002:214-290); the
   Entries view computes the same totals (Settings.tsx:1018-1038) *)

\* fe.filter((entry) => entry.type === type).reduce(..., {amount: 0, count: 0})
RECURSIVE Reduce(_, _)
Reduce(fe, type) ==
  IF fe = <<>> THEN [amount |-> 0, count |-> 0]
  ELSE LET acc == Reduce(SubSeq(fe, 1, Len(fe) - 1), type)
           entry == fe[Len(fe)]
       IN IF entry.type = type
          THEN [amount |-> acc.amount + entry.amount, count |-> acc.count + 1]
          ELSE acc

\* the useMemo totals of the mounted view, over its filteredEntries
totals ==
  LET fe == IF route = "dashboard" THEN dashboardFiltered ELSE filteredEntries
  IN [income |-> Reduce(fe, INCOME), expense |-> Reduce(fe, EXPENSE)]

\* [...new Set(s)]: the distinct elements of s in the order of their first
\* occurrence
RECURSIVE Distinct(_)
Distinct(s) ==
  IF s = <<>> THEN <<>>
  ELSE LET front == Distinct(SubSeq(s, 1, Len(s) - 1))
       IN IF \E k \in 1 .. Len(front) : front[k] = s[Len(s)] THEN front
          ELSE front \o <<s[Len(s)]>>

\* chart data with rows for the properties of the entries of the type only
GroupByProperty_TypedOnly(fe, type) ==
  LET properties == Distinct([i \in 1 .. Len(SelectSeq(fe, LAMBDA e : e.type = type)) |->
                                SelectSeq(fe, LAMBDA e : e.type = type)[i].property])
  IN [ k \in 1 .. Len(properties) |->
         [ property |-> properties[k],
           total |-> Reduce(SelectSeq(fe, LAMBDA e : e.property = properties[k]), type).amount ] ]
\* properties, and incomeData (type 'Income') or expenseData (type 'Expense')
\* (lines 374-386): a row for each property of the filtered entries, with the
\* sum of the amounts of its entries of the type as income or expense (total)
GroupByProperty(fe, type) ==
  LET properties == Distinct([i \in 1 .. Len(fe) |-> fe[i].property])
  IN [ k \in 1 .. Len(properties) |->
         [ property |-> properties[k],
           total |-> Reduce(SelectSeq(fe, LAMBDA e : e.property = properties[k]), type).amount ] ]

\* s.replace(/"/g, '""'): every double quote of s written twice
DQ == "\""
RECURSIVE Escape(_)
Escape(s) ==
  IF s = <<>> THEN <<>>
  ELSE (IF s[1] = DQ THEN <<DQ, DQ>> ELSE <<s[1]>>) \o Escape(SubSeq(s, 2, Len(s)))

\* handleCSVExport (lines 292-327): the lines of csvContent before
\* join('\n'), each one the sequence of its cells before join(','); the first
\* line is the headers, then the callback of filteredEntries.map for each
\* filtered entry: its values between double quotes, those of amountInWords,
\* name and contact after replace(/"/g, '""')
csvContent(fe, zone) ==
  << << <<"id">>, <<"date">>, <<"type">>, <<"category">>, <<"amount">>,
        <<"amountInWords">>, <<"name">>, <<"contact">>, <<"monthYear">>,
        <<"renewDate">>, <<"renewDateReminder">>, <<"property">> >> >>
  \o [ i \in 1 .. Len(fe) |->
        << <<DQ>> \o fe[i].id \o <<DQ>>,
           <<DQ>> \o fe[i].date \o <<DQ>>,
           <<DQ>> \o fe[i].type \o <<DQ>>,
           <<DQ>> \o fe[i].category \o <<DQ>>,
           <<DQ>> \o NumStr(fe[i].amount) \o <<DQ>>,
           <<DQ>> \o Escape(numberToWordsIndian(Whole(fe[i].amount))) \o <<DQ>>,
           <<DQ>> \o Escape(fe[i].name) \o <<DQ>>,
           <<DQ>> \o Escape(fe[i].contact) \o <<DQ>>,
           <<DQ>> \o (IF DateParse(fe[i].date) = NaN THEN <<"Invalid Date">>
                      ELSE MonthYearLabel(DateParse(fe[i].date)[1], zone)) \o <<DQ>>,
           <<DQ>> \o fe[i].renewDate \o <<DQ>>,
           <<DQ>> \o NumStr(fe[i].renewDateReminder) \o <<DQ>>,
           <<DQ>> \o fe[i].property \o <<DQ>> >> ]

\* Number.POSITIVE_INFINITY: <<1, 0>>, which no number <<n>> equals
Infinity == <<1, 0>>
\* a / b of two non-negative integers: the quotient as a fraction <<p, q>> in
\* lowest terms, Infinity for b = 0 < a, and NaN for 0 / 0
RECURSIVE Gcd(_, _)
Gcd(a, b) == IF b = 0 THEN a ELSE Gcd(b, a % b)
Divide(a, b) ==
  IF b = 0 THEN (IF a = 0 THEN NaN ELSE Infinity)
  ELSE <<a \div Gcd(a, b), b \div Gcd(a, b)>>

\* averages that divide without looking at the count
summaryMetrics_Unguarded(t) ==
  [ netBalance |-> t.income.amount - t.expense.amount,
    avgIncome |-> Divide(t.income.amount, t.income.count),
    avgExpense |-> Divide(t.expense.amount, t.expense.count),
    totalTransactions |-> t.income.count + t.expense.count ]
\* the useMemo summaryMetrics (lines 236-250) for the totals t
summaryMetrics(t) ==
  [ netBalance |-> t.income.amount - t.expense.amount,
    avgIncome |->
      IF t.income.count > 0 THEN Divide(t.income.amount, t.income.count) ELSE <<0, 1>>,
    avgExpense |->
      IF t.expense.count > 0 THEN Divide(t.expense.amount, t.expense.count) ELSE <<0, 1>>,
    totalTransactions |-> t.income.count + t.expense.count ]

\* Math.ceil(a / b) for an integer a and b > 0
CeilDiv(a, b) == -((-a) \div b)

\* a distance that forgets its sign
daysUntil_Abs(date, fromDate) ==
  LET renew == DateParse(date)
      from == DateParse(fromDate)
  IN IF renew = NaN \/ from = NaN THEN Infinity
     ELSE IF renew[1] < from[1] THEN <<CeilDiv(from[1] - renew[1], TicksPerDay)>>
     ELSE <<CeilDiv(renew[1] - from[1], TicksPerDay)>>
\* daysUntil (lines 252-258): a number of days <<n>>, or Infinity
daysUntil(date, fromDate) ==
  LET renew == DateParse(date)
      from == DateParse(fromDate)
  IN IF renew = NaN \/ from = NaN THEN Infinity
     ELSE <<CeilDiv(renew[1] - from[1], TicksPerDay)>>

\* a status that ends the approach one day early
ReminderStatus_Strict(entry, fromDate) ==
  LET daysToRenew == daysUntil(entry.renewDate, fromDate)[1]
  IN IF daysToRenew = 0 THEN "Due"
     ELSE IF daysToRenew < 0 THEN "Past Due"
     ELSE IF daysToRenew < entry.renewDateReminder THEN "Approaching"
     ELSE "null"
\* the status that the .map callback (lines 266-279) gives an entry whose
\* daysUntil is finite, "null" standing for its return null
ReminderStatus(entry, fromDate) ==
  LET daysToRenew == daysUntil(entry.renewDate, fromDate)[1]
  IN IF daysToRenew = 0 THEN "Due"
     ELSE IF daysToRenew < 0 THEN "Past Due"
     ELSE IF daysToRenew <= entry.renewDateReminder THEN "Approaching"
     ELSE "null"

\* the list before .sort
ReminderEntriesOf_Unsorted(E, fromDate) ==
  LET kept == SelectSeq(E, LAMBDA entry :
                /\ entry.renewDateReminder > 0
                /\ daysUntil(entry.renewDate, fromDate) # Infinity)
      listed == SelectSeq(kept, LAMBDA entry : ReminderStatus(entry, fromDate) # "null")
  IN [ i \in 1 .. Len(listed) |->
         [ f \in DOMAIN listed[i] \cup {"status"} |->
             IF f = "status" THEN ReminderStatus(listed[i], fromDate) ELSE listed[i][f] ] ]
\* the useMemo reminderEntries (lines 260-290) for the entries E and today
\* = fromDate: filter, map to {...entry, status} or null, filter, sort
ReminderEntriesOf(E, fromDate) ==
  LET kept == SelectSeq(E, LAMBDA entry :
                /\ entry.renewDateReminder > 0
                /\ daysUntil(entry.renewDate, fromDate) # Infinity)
      listed == SelectSeq(kept, LAMBDA entry : ReminderStatus(entry, fromDate) # "null")
      rows == [ i \in 1 .. Len(listed) |->
                [ f \in DOMAIN listed[i] \cup {"status"} |->
                    IF f = "status" THEN ReminderStatus(listed[i], fromDate)
                    ELSE listed[i][f] ] ]
  IN ArraySort(rows, [ i \in 1 .. Len(rows), j \in 1 .. Len(rows) |->
                         Minus(DateParse(rows[i].renewDate), DateParse(rows[j].renewDate)) ])
reminderEntries == ReminderEntriesOf(entries, today)

\* differenceInDays of date-fns for two instants: the full days between
\* them, the fraction cut off towards zero; NaN when either is no date
differenceInDays(dateLeft, dateRight) ==
  IF dateLeft = NaN \/ dateRight = NaN THEN NaN
  ELSE IF dateLeft[1] >= dateRight[1]
       THEN <<(dateLeft[1] - dateRight[1]) \div TicksPerDay>>
       ELSE <<-((dateRight[1] - dateLeft[1]) \div TicksPerDay)>>

\* getRowColor of the Entries table (Settings.tsx:1269-1284): the class of
\* the row of an entry, '' for a row that is not highlighted. Its today is
\* new Date('2025-05-21').
getRowColor(entry) ==
  IF entry.renewDateReminder = 0 THEN ""
  ELSE LET daysUntilRenew ==
             differenceInDays(DateParse(entry.renewDate), DateParse(IsoDate(2025, 5, 21)))
       IN IF Leq(daysUntilRenew, <<entry.renewDateReminder>>)
          THEN IF daysUntilRenew[1] <= 5 THEN "bg-red-100 dark:bg-red-900/20"
               ELSE IF daysUntilRenew[1] <= 10 THEN "bg-yellow-100 dark:bg-yellow-900/20"
               ELSE IF daysUntilRenew[1] <= 15 THEN "bg-green-100 dark:bg-green-900/20"
               ELSE ""
          ELSE ""

\* a render of the Dashboard at a later date while none of its states above
\* changed (setIsLoading, the debounced entries): today is read again
\* (line 69) and reminderEntries recomputes, filteredEntries does not
Render(clock) ==
  /\ route = "dashboard"
  /\ ToISODate(clock) # today
  /\ today' = ToISODate(clock)
  /\ UNCHANGED <<entries, sortConfig, filter, customRange, now, invalidDateLog,
                 searchTerm, filterConfig, currentPage, entriesPerPage, fvars, route, tz, snapshot, pdf, avars>>

-----------------------------------------------------------------------------
(* Callers of the formatter: Entries.generatePDF (Settings.tsx:1216), the
   amount tooltip (Settings.tsx:1776) and Dashboard.handleCSVExport
   (part_002:314) pass entry.amount, a non-negative number that the entry
   form accepts with decimals (z.number().min(0), Settings.tsx:765). *)

\* amounts with chosen values of the five buckets and any fraction k/Den
AmountInputs ==
  { JsNum(c * 10000000 + l * 100000 + t * 1000 + h * 100 + r, f) :
      c \in {0, 1, 12, 100, 123}, l \in {0, 1, 12, 99}, t \in {0, 34, 70},
      h \in {0, 5}, r \in {0, 5, 10, 19, 20, 67}, f \in 0 .. (Den - 1) }

\* one call numberToWordsIndian(x) by a caller, up to its return
Convert(x) ==
  /\ fpc = "idle"
  /\ num' = x
  /\ words' = numberToWordsIndian(x)
  /\ fpc' = "returned"
  /\ UNCHANGED <<evars, dvars, route, tz, invalidDateLog, snapshot, pdf, avars>>

\* the caller has used the string; the next call starts afresh
Consume ==
  /\ fpc = "returned"
  /\ fpc' = "idle"
  /\ num' = Whole(0)
  /\ words' = <<>>
  /\ UNCHANGED <<evars, dvars, route, tz, invalidDateLog, snapshot, pdf, avars>>

-----------------------------------------------------------------------------
(* The service layer (src/services/api.ts) and the handlers that call it.
   A call is a record with the place where it waits (pc); a step of a call
   runs from one await to the next. A request to the database that fails
   has written nothing. *)

maxRetries == 3           \* api.ts:89

\* no call of handleDelete in flight; end tells how the latest one ended and
\* log holds what its attempts of deleteEntry found, one word per attempt
NoDelete == [pc |-> "idle", id |-> <<>>, attempt |-> 0, log |-> <<>>, end |-> "none"]

\* handleDelete(id) up to its await getDoc (Settings.tsx:1173-1177); the
\* button is in a row of the table
handleDelete(id) ==
  /\ route = "entries"
  /\ del.pc = "idle"
  /\ \E i \in 1 .. Len(paginatedEntries) : paginatedEntries[i].id = id
  /\ isDeleting' = <<id>>
  /\ del' = [pc |-> "exists", id |-> id, attempt |-> 0, log |-> <<>>, end |-> "none"]
  /\ UNCHANGED <<fvars, evars, dvars, route, tz, invalidDateLog, snapshot, pdf,
                 svars, editingEntry, isDialogOpen, sub, pvars>>

\* the end of handleDelete: its catch and its finally (lines 1189-1204)
DeleteEnds(how, log) ==
  /\ del' = [del EXCEPT !.pc = "idle", !.log = log, !.end = how]
  /\ isDeleting' = <<>>

\* handleDelete after its own getDoc (lines 1177-1185): the request failed,
\* or the document is not there, or deleteEntry is called
handleDeleteChecked(failed) ==
  /\ del.pc = "exists"
  /\ IF failed THEN DeleteEnds("error", del.log)
     ELSE IF del.id \notin entriesCol THEN DeleteEnds("skipped", del.log)
     ELSE del' = [del EXCEPT !.pc = "getDoc", !.attempt = 1] /\ UNCHANGED isDeleting
  /\ UNCHANGED <<fvars, evars, dvars, route, tz, invalidDateLog, snapshot, pdf,
                 svars, editingEntry, isDialogOpen, sub, pvars>>

\* the catch of deleteEntry for an error other than 'No document to delete'
\* (api.ts:104-115)
DeleteCaught(found) ==
  IF del.attempt = maxRetries
  THEN DeleteEnds("Failed to delete entry after 3 attempts", Append(del.log, found))
  ELSE /\ del' = [del EXCEPT !.pc = "timer", !.log = Append(del.log, found)]
       /\ UNCHANGED isDeleting

\* deleteEntry with a missing document taken for any other failure
deleteEntry_RetryMissing(failed) ==
  /\ \/ /\ del.pc = "getDoc"
        /\ IF failed THEN DeleteCaught("error")
           ELSE IF del.id \notin entriesCol THEN DeleteCaught("missing")
           ELSE del' = [del EXCEPT !.pc = "deleteDoc"] /\ UNCHANGED isDeleting
        /\ UNCHANGED entriesCol
     \/ /\ del.pc = "deleteDoc"
        /\ IF failed THEN DeleteCaught("error") /\ UNCHANGED entriesCol
           ELSE /\ entriesCol' = entriesCol \ {del.id}
                /\ DeleteEnds("returned", Append(del.log, "deleted"))
     \/ /\ del.pc = "timer"
        /\ ~failed
        /\ del' = [del EXCEPT !.pc = "getDoc", !.attempt = del.attempt + 1]
        /\ UNCHANGED <<isDeleting, entriesCol>>
  /\ UNCHANGED <<fvars, evars, dvars, route, tz, invalidDateLog, snapshot, pdf,
                 settingsDoc, usedIds, saves, editingEntry, isDialogOpen, sub, pvars>>

\* one step of deleteEntry (api.ts:88-118) inside handleDelete, from an await
\* to the next: getDoc, deleteDoc, or the timer before the next attempt
deleteEntry(failed) ==
  /\ \/ /\ del.pc = "getDoc"
        /\ IF failed THEN DeleteCaught("error")
           ELSE IF del.id \notin entriesCol
           THEN DeleteEnds("No document to delete", Append(del.log, "missing"))
           ELSE del' = [del EXCEPT !.pc = "deleteDoc"] /\ UNCHANGED isDeleting
        /\ UNCHANGED entriesCol
     \/ /\ del.pc = "deleteDoc"
        /\ IF failed THEN DeleteCaught("error") /\ UNCHANGED entriesCol
           ELSE /\ entriesCol' = entriesCol \ {del.id}
                /\ DeleteEnds("returned", Append(del.log, "deleted"))
     \/ /\ del.pc = "timer"
        /\ ~failed
        /\ del' = [del EXCEPT !.pc = "getDoc", !.attempt = del.attempt + 1]
        /\ UNCHANGED <<isDeleting, entriesCol>>
  /\ UNCHANGED <<fvars, evars, dvars, route, tz, invalidDateLog, snapshot, pdf,
                 settingsDoc, usedIds, saves, editingEntry, isDialogOpen, sub, pvars>>

\* another client (or another tab) adds a document: addDoc gives it an id
\* that was never used (api.ts:74-80)
addEntry(id) ==
  /\ id \notin usedIds
  /\ entriesCol' = entriesCol \cup {id}
  /\ usedIds' = usedIds \cup {id}
  /\ UNCHANGED <<fvars, evars, dvars, route, tz, invalidDateLog, snapshot, pdf,
                 settingsDoc, saves, xvars, pvars>>

\* another client deletes a document (deleteDoc, api.ts:100)
OtherDelete(id) ==
  /\ id \in entriesCol
  /\ entriesCol' = entriesCol \ {id}
  /\ UNCHANGED <<fvars, evars, dvars, route, tz, invalidDateLog, snapshot, pdf,
                 settingsDoc, usedIds, saves, xvars, pvars>>

\* no call of the entry form's onSubmit in flight; id is the entry that the
\* latest call updates (none when it adds), listed tells whether the entries
\* of the view held that entry when the call began, end how the call ended
NoSubmit == [pc |-> "idle", id |-> <<>>, listed |-> FALSE, end |-> "none"]

\* the ids of the entries of the view
EntryIds == { entries[i].id : i \in DOMAIN entries }
\* a row of the page that the table shows
IsRow(entry) == \E i \in 1 .. Len(paginatedEntries) : paginatedEntries[i] = entry

\* handleEdit of a row (Settings.tsx:1145-1157)
handleEdit(entry) ==
  /\ route = "entries" /\ ~isDialogOpen /\ IsRow(entry)
  /\ editingEntry' = <<entry>>
  /\ isDialogOpen' = TRUE
  /\ UNCHANGED <<fvars, evars, dvars, route, tz, invalidDateLog, snapshot, pdf,
                 svars, isDeleting, del, sub, pvars>>

\* handleDuplicate of a row (lines 1159-1171)
handleDuplicate(entry) ==
  /\ route = "entries" /\ ~isDialogOpen /\ IsRow(entry)
  /\ editingEntry' = <<>>
  /\ isDialogOpen' = TRUE
  /\ UNCHANGED <<fvars, evars, dvars, route, tz, invalidDateLog, snapshot, pdf,
                 svars, isDeleting, del, sub, pvars>>

\* handleAddEntry (lines 1252-1266)
handleAddEntry ==
  /\ route = "entries" /\ ~isDialogOpen
  /\ editingEntry' = <<>>
  /\ isDialogOpen' = TRUE
  /\ UNCHANGED <<fvars, evars, dvars, route, tz, invalidDateLog, snapshot, pdf,
                 svars, isDeleting, del, sub, pvars>>

\* handleCancel (lines 1246-1250)
handleCancel ==
  /\ route = "entries" /\ isDialogOpen
  /\ editingEntry' = <<>>
  /\ isDialogOpen' = FALSE
  /\ UNCHANGED <<fvars, evars, dvars, route, tz, invalidDateLog, snapshot, pdf,
                 svars, isDeleting, del, sub, pvars>>

\* the dialog dismissed otherwise: onOpenChange={setIsDialogOpen} (line 1925)
onOpenChange(open) ==
  /\ route = "entries" /\ isDialogOpen /\ ~open
  /\ isDialogOpen' = open
  /\ UNCHANGED <<fvars, evars, dvars, route, tz, invalidDateLog, snapshot, pdf,
                 svars, editingEntry, isDeleting, del, sub, pvars>>

\* onSubmit of the entry form up to its first await (lines 1112-1121):
\* updateEntry for the entry being edited, addEntry otherwise
EntriesOnSubmit ==
  /\ route = "entries" /\ isDialogOpen /\ sub.pc = "idle"
  /\ sub' = IF editingEntry # <<>>
            THEN [pc |-> "getDoc", id |-> editingEntry[1].id,
                  listed |-> editingEntry[1].id \in EntryIds, end |-> "none"]
            ELSE [pc |-> "addDoc", id |-> <<>>, listed |-> FALSE, end |-> "none"]
  /\ UNCHANGED <<fvars, evars, dvars, route, tz, invalidDateLog, snapshot, pdf,
                 svars, editingEntry, isDialogOpen, isDeleting, del, pvars>>

\* the end of onSubmit: after the await (lines 1125-1127), in the catch for
\* 'No document to update' (1131-1133), or in the catch for another error
SubmitEnds(how) ==
  /\ sub' = [sub EXCEPT !.pc = "idle", !.end = how]
  /\ IF how = "error" THEN UNCHANGED <<isDialogOpen, editingEntry>>
     ELSE isDialogOpen' = FALSE /\ editingEntry' = <<>>

\* one step of the call that onSubmit awaits: the getDoc or the updateDoc of
\* updateEntry (api.ts:121-137), or the addDoc of addEntry (72-84) that
\* gives the new document the id newId. updateDoc writes to an existing
\* document only; for a missing one it fails, and its error may or may not
\* carry the text 'No document to update' (texted).
EntriesOnSubmitStep(failed, texted, newId) ==
  /\ \/ /\ sub.pc = "getDoc"
        /\ ~texted
        /\ IF failed THEN SubmitEnds("error")
           ELSE IF sub.id \notin entriesCol THEN SubmitEnds("No document to update")
           ELSE sub' = [sub EXCEPT !.pc = "updateDoc"] /\ UNCHANGED <<isDialogOpen, editingEntry>>
        /\ UNCHANGED <<entriesCol, usedIds>>
     \/ /\ sub.pc = "updateDoc"
        /\ IF sub.id \notin entriesCol
           THEN failed /\ SubmitEnds(IF texted THEN "No document to update" ELSE "error")
           ELSE ~texted /\ SubmitEnds(IF failed THEN "error" ELSE "updated")
        /\ UNCHANGED <<entriesCol, usedIds>>
     \/ /\ sub.pc = "addDoc"
        /\ ~texted
        /\ IF failed THEN SubmitEnds("error") /\ UNCHANGED <<entriesCol, usedIds>>
           ELSE /\ newId \notin usedIds
                /\ entriesCol' = entriesCol \cup {newId}
                /\ usedIds' = usedIds \cup {newId}
                /\ SubmitEnds("added")
  /\ UNCHANGED <<fvars, evars, dvars, route, tz, invalidDateLog, snapshot, pdf,
                 settingsDoc, saves, isDeleting, del, pvars>>
\* no call of handleCSVImport in flight; file holds the rows of the latest
\* one, row and attempt tell where its loop is, current is currentSettings,
\* log holds the outcome of each addDoc, added the ids of the documents it
\* added, saveCalls counts its calls of saveSettings, end tells how it ended
NoImport ==
  [pc |-> "idle", file |-> <<>>, row |-> 0, attempt |-> 0, current |-> <<>>,
   log |-> <<>>, added |-> {}, saveCalls |-> 0, end |-> "none"]



\* no call of handleResetEntries in flight; read is what the getDocs of the
\* latest call returned, known the ids generated up to then, pending the
\* deleteDoc calls that have not settled, notified the item 'resetEntries'
\* of localStorage, end how the call ended
NoReset ==
  [pc |-> "idle", read |-> {}, known |-> {}, pending |-> {}, notified |-> FALSE,
   end |-> "none"]

\* handleResetEntries once the user has confirmed, up to its timer
\* (Settings.tsx:160-171)
handleResetEntries ==
  /\ route = "settings"
  /\ rst.pc = "idle"
  /\ isResetting' = TRUE
  /\ rst' = [NoReset EXCEPT !.pc = "timer", !.notified = rst.notified]
  /\ UNCHANGED <<fvars, evars, dvars, route, tz, invalidDateLog, snapshot, pdf,
                 svars, xvars, settingsState, localSettings, isLoading, isImporting,
                 save, imp, gs>>

\* resetEntries that waits for the first deleteDoc only (Promise.race)
resetEntries_FirstSettled(failed) ==
  /\ \/ /\ rst.pc = "timer"
        /\ ~failed
        /\ rst' = [rst EXCEPT !.pc = "getDocs"]
        /\ UNCHANGED <<entriesCol, isResetting>>
     \/ /\ rst.pc = "getDocs"
        /\ IF failed
           THEN rst' = [rst EXCEPT !.pc = "idle", !.end = "error"] /\ isResetting' = FALSE
           ELSE IF entriesCol = {}
           THEN /\ rst' = [rst EXCEPT !.pc = "idle", !.end = "success", !.read = {},
                                      !.known = usedIds, !.notified = TRUE]
                /\ isResetting' = FALSE
           ELSE /\ rst' = [rst EXCEPT !.pc = "deleteDoc", !.read = entriesCol,
                                      !.known = usedIds, !.pending = entriesCol]
                /\ UNCHANGED isResetting
        /\ UNCHANGED entriesCol
     \/ /\ rst.pc = "deleteDoc"
        /\ \E id \in rst.pending :
             IF failed
             THEN /\ rst' = [rst EXCEPT !.pc = IF rst.pending = {id} THEN "idle" ELSE "settling",
                                        !.end = "error", !.pending = rst.pending \ {id}]
                  /\ isResetting' = FALSE
                  /\ UNCHANGED entriesCol
             ELSE /\ entriesCol' = entriesCol \ {id}
                  /\ rst' = [rst EXCEPT !.pc = IF rst.pending = {id} THEN "idle" ELSE "settling",
                                        !.end = "success", !.pending = rst.pending \ {id},
                                        !.notified = TRUE]
                  /\ isResetting' = FALSE
     \/ /\ rst.pc = "settling"
        /\ \E id \in rst.pending :
             /\ entriesCol' = IF failed THEN entriesCol ELSE entriesCol \ {id}
             /\ rst' = [rst EXCEPT !.pc = IF rst.pending = {id} THEN "idle" ELSE "settling",
                                   !.pending = rst.pending \ {id}]
             /\ UNCHANGED isResetting
  /\ UNCHANGED <<fvars, evars, dvars, route, tz, invalidDateLog, snapshot, pdf,
                 settingsDoc, usedIds, saves, xvars,
                 settingsState, localSettings, isLoading, isImporting, save, imp, gs>>

\* one step of resetEntries (api.ts:178-190) inside handleResetEntries
\* (Settings.tsx:168-184): the timer of 500 ms fires, the getDocs settles, or
\* one of the deleteDoc calls does. All the deleteDoc calls are issued
\* together; Promise.all rejects at the first that fails, and the others
\* still settle after the handler has ended.
resetEntries(failed) ==
  /\ \/ /\ rst.pc = "timer"
        /\ ~failed
        /\ rst' = [rst EXCEPT !.pc = "getDocs"]
        /\ UNCHANGED <<entriesCol, isResetting>>
     \/ /\ rst.pc = "getDocs"
        /\ IF failed
           THEN rst' = [rst EXCEPT !.pc = "idle", !.end = "error"] /\ isResetting' = FALSE
           ELSE IF entriesCol = {}
           THEN /\ rst' = [rst EXCEPT !.pc = "idle", !.end = "success", !.read = {},
                                      !.known = usedIds, !.notified = TRUE]
                /\ isResetting' = FALSE
           ELSE /\ rst' = [rst EXCEPT !.pc = "deleteDoc", !.read = entriesCol,
                                      !.known = usedIds, !.pending = entriesCol]
                /\ UNCHANGED isResetting
        /\ UNCHANGED entriesCol
     \/ /\ rst.pc = "deleteDoc"
        /\ \E id \in rst.pending :
             IF failed
             THEN /\ rst' = [rst EXCEPT !.pc = IF rst.pending = {id} THEN "idle" ELSE "settling",
                                        !.end = "error", !.pending = rst.pending \ {id}]
                  /\ isResetting' = FALSE
                  /\ UNCHANGED entriesCol
             ELSE /\ entriesCol' = entriesCol \ {id}
                  /\ IF rst.pending = {id}
                     THEN /\ rst' = [rst EXCEPT !.pc = "idle", !.end = "success",
                                                !.pending = {}, !.notified = TRUE]
                          /\ isResetting' = FALSE
                     ELSE /\ rst' = [rst EXCEPT !.pending = rst.pending \ {id}]
                          /\ UNCHANGED isResetting
     \/ /\ rst.pc = "settling"
        /\ \E id \in rst.pending :
             /\ entriesCol' = IF failed THEN entriesCol ELSE entriesCol \ {id}
             /\ rst' = [rst EXCEPT !.pc = IF rst.pending = {id} THEN "idle" ELSE "settling",
                                   !.pending = rst.pending \ {id}]
             /\ UNCHANGED isResetting
  /\ UNCHANGED <<fvars, evars, dvars, route, tz, invalidDateLog, snapshot, pdf,
                 settingsDoc, usedIds, saves, xvars,
                 settingsState, localSettings, isLoading, isImporting, save, imp, gs>>

\* the settings that getSettings stores when there are none (api.ts:148-154)
DefaultSettings ==
  [ properties |-> << <<"A", "8", "0", "2", "-", "C", "R">>, <<"H", "o", "m", "e">>,
                      <<"O", "f", "f", "i", "c", "e">> >>,
    incomeCategories |-> << <<"C", "a", "s", "h">>, <<"G", "i", "f", "t">>,
                            <<"R", "e", "n", "t">>, <<"S", "a", "l", "a", "r", "y">> >>,
    expenseCategories |-> << <<"M", "a", "i", "n", "t", "e", "n", "a", "n", "c", "e">>,
                             <<"T", "r", "a", "v", "e", "l">> >>,
    pdfTemplate |-> << "Finance Tracker Entry\nID: ", "{{id}}", "\nName: ", "{{name}}",
                       "\nContact: ", "{{contact}}", "\nType: ", "{{type}}",
                       "\nCategory: ", "{{category}}", "\nAmount: ", "{{currency}}",
                       "{{amount}}", "\nAmount in Words: ", "{{amountInWords}}",
                       "\nDate: ", "{{date}}", "\nRenew Date: ", "{{renewDate}}",
                       "\nReminder: ", "{{renewDateReminder}}", " days\nProperty: ",
                       "{{property}}" >>,
    pdfFilename |-> << "{{name}}", "_", "{{date}}", ".pdf" >> ]

\* who calls getSettings: the effect of the Settings component
\* (Settings.tsx:84-110), handleCSVImport (line 227) and another client
Clients == {"fetchSettings", "handleCSVImport", "other"}
NoCall == [pc |-> "idle", value |-> <<>>]

\* a caller calls getSettings, up to its await getDoc (api.ts:140-143)
CallGetSettings(c) ==
  /\ gs[c].pc \in {"idle", "returned", "thrown"}
  /\ gs' = [gs EXCEPT ![c] = [pc |-> "getDoc", value |-> <<>>]]

\* one step of a call of getSettings (api.ts:140-162): the getDoc settles,
\* or the setDoc of the default settings does
getSettings(c, failed) ==
  /\ \/ /\ gs[c].pc = "getDoc"
        /\ gs' = [gs EXCEPT ![c] =
                   IF failed THEN [pc |-> "thrown", value |-> <<>>]
                   ELSE IF settingsDoc # <<>> THEN [pc |-> "returned", value |-> settingsDoc]
                   ELSE [pc |-> "setDoc", value |-> <<>>]]
        /\ UNCHANGED settingsDoc
     \/ /\ gs[c].pc = "setDoc"
        /\ IF failed THEN gs' = [gs EXCEPT ![c].pc = "thrown"] /\ UNCHANGED settingsDoc
           ELSE /\ settingsDoc' = <<DefaultSettings>>
                /\ gs' = [gs EXCEPT ![c] = [pc |-> "returned", value |-> <<DefaultSettings>>]]
  /\ UNCHANGED <<fvars, evars, dvars, route, tz, invalidDateLog, snapshot, pdf,
                 entriesCol, usedIds, saves, xvars,
                 settingsState, localSettings, isLoading, isImporting, isResetting,
                 save, imp, rst>>

\* the router shows /settings (part_000:31): the view left is unmounted, the
\* Settings component starts from its initial states and its effect calls
\* fetchSettings (Settings.tsx:84-110)
OpenSettings ==
  /\ route # "settings"
  /\ route' = "settings"
  /\ entries' = <<>>
  /\ searchTerm' = <<>>
  /\ filterConfig' = DefaultFilterConfig
  /\ sortConfig' = [key |-> "date", direction |-> "desc"]
  /\ currentPage' = 1
  /\ entriesPerPage' = 10
  /\ filter' = CURRENT_MONTH
  /\ customRange' = [startDate |-> 0, endDate |-> 0]
  /\ now' = 0
  /\ today' = <<>>
  /\ tz' = 0
  /\ invalidDateLog' = <<>>
  /\ snapshot' = {}
  /\ pdf' = [text |-> <<>>, filename |-> <<>>]
  /\ editingEntry' = <<>>
  /\ isDialogOpen' = FALSE
  /\ isDeleting' = <<>>
  /\ settingsState' = <<>>
  /\ isLoading' = TRUE
  /\ isImporting' = FALSE
  /\ isResetting' = FALSE
  /\ CallGetSettings("fetchSettings")
  /\ UNCHANGED <<fvars, svars, del, sub, localSettings, save, imp, rst>>

\* fetchSettings after its await getSettings (Settings.tsx:88-107)
fetchSettings ==
  /\ route = "settings"
  /\ gs["fetchSettings"].pc \in {"returned", "thrown"}
  /\ settingsState' = IF gs["fetchSettings"].pc = "returned"
                      THEN gs["fetchSettings"].value ELSE settingsState
  /\ isLoading' = FALSE
  /\ gs' = [gs EXCEPT !["fetchSettings"] = NoCall]
  /\ UNCHANGED <<fvars, evars, dvars, route, tz, invalidDateLog, snapshot, pdf,
                 svars, xvars, localSettings, isImporting, isResetting, save, imp, rst>>

\* String.prototype.split(',')
RECURSIVE Split(_)
Split(s) ==
  IF \A k \in 1 .. Len(s) : s[k] # ","
  THEN <<s>>
  ELSE LET i == CHOOSE k \in 1 .. Len(s) : s[k] = "," /\ \A j \in 1 .. (k - 1) : s[j] # ","
       IN <<SubSeq(s, 1, i - 1)>> \o Split(SubSeq(s, i + 1, Len(s)))

\* .split(',').map((item) => item.trim()).filter(Boolean).sort()
\* (Settings.tsx:116-130); sort() orders by code units
ListOf(s) ==
  LET items == SelectSeq([k \in 1 .. Len(Split(s)) |-> Trim(Split(s)[k])],
                         LAMBDA item : item # <<>>)
  IN ArraySort(items, [i \in 1 .. Len(items), j \in 1 .. Len(items) |->
                         <<CodeCompare(items[i], items[j])>>])

\* updatedSettings of the settings form (Settings.tsx:115-133)
UpdatedSettings(data) ==
  [ properties |-> ListOf(data.properties),
    incomeCategories |-> ListOf(data.incomeCategories),
    expenseCategories |-> ListOf(data.expenseCategories),
    pdfTemplate |-> data.pdfTemplate,
    pdfFilename |-> data.pdfFilename ]

\* no submit of the settings form in flight; calls counts the calls of
\* saveSettings of the latest one, end tells how it ended
NoSave == [pc |-> "idle", attempt |-> 0, data |-> <<>>, calls |-> 0, end |-> "none"]

\* onSubmit of the settings form up to its first await saveSettings
\* (Settings.tsx:112-137); the form is shown while isLoading is false
SettingsOnSubmit(data) ==
  /\ route = "settings"
  /\ save.pc = "idle"
  /\ ~isLoading
  /\ isLoading' = TRUE
  /\ save' = [pc |-> "saveSettings", attempt |-> 1, data |-> <<UpdatedSettings(data)>>,
              calls |-> 1, end |-> "none"]
  /\ UNCHANGED <<fvars, evars, dvars, route, tz, invalidDateLog, snapshot, pdf,
                 svars, xvars, settingsState, localSettings, isImporting, isResetting,
                 imp, rst, gs>>

\* the submit that stores the new settings in the component and in
\* localStorage whether or not they were saved
SettingsOnSubmitStep_StoreAnyway(failed) ==
  /\ \/ /\ save.pc = "saveSettings"
        /\ IF ~failed
           THEN /\ settingsDoc' = save.data
                /\ saves' = saves + 1
                /\ settingsState' = save.data
                /\ localSettings' = save.data
                /\ isLoading' = FALSE
                /\ save' = [save EXCEPT !.pc = "idle", !.end = "saved"]
           ELSE IF save.attempt = 2
           THEN /\ isLoading' = FALSE
                /\ settingsState' = save.data
                /\ localSettings' = save.data
                /\ save' = [save EXCEPT !.pc = "idle", !.end = "failed"]
                /\ UNCHANGED <<settingsDoc, saves>>
           ELSE /\ save' = [save EXCEPT !.pc = "timer"]
                /\ UNCHANGED <<settingsDoc, saves, settingsState, localSettings, isLoading>>
     \/ /\ save.pc = "timer"
        /\ ~failed
        /\ save' = [save EXCEPT !.pc = "saveSettings", !.attempt = save.attempt + 1,
                                !.calls = save.calls + 1]
        /\ UNCHANGED <<settingsDoc, saves, settingsState, localSettings, isLoading>>
  /\ UNCHANGED <<fvars, evars, dvars, route, tz, invalidDateLog, snapshot, pdf,
                 entriesCol, usedIds, xvars, isImporting, isResetting, imp, rst, gs>>

\* one step of that onSubmit (Settings.tsx:134-157): the setDoc of
\* saveSettings (api.ts:165-175) settles, or the timer before the second
\* attempt fires
SettingsOnSubmitStep(failed) ==
  /\ \/ /\ save.pc = "saveSettings"
        /\ IF ~failed
           THEN /\ settingsDoc' = save.data
                /\ saves' = saves + 1
                /\ settingsState' = save.data
                /\ localSettings' = save.data
                /\ isLoading' = FALSE
                /\ save' = [save EXCEPT !.pc = "idle", !.end = "saved"]
           ELSE IF save.attempt = 2
           THEN /\ isLoading' = FALSE
                /\ save' = [save EXCEPT !.pc = "idle", !.end = "failed"]
                /\ UNCHANGED <<settingsDoc, saves, settingsState, localSettings>>
           ELSE /\ save' = [save EXCEPT !.pc = "timer"]
                /\ UNCHANGED <<settingsDoc, saves, settingsState, localSettings, isLoading>>
     \/ /\ save.pc = "timer"
        /\ ~failed
        /\ save' = [save EXCEPT !.pc = "saveSettings", !.attempt = save.attempt + 1,
                                !.calls = save.calls + 1]
        /\ UNCHANGED <<settingsDoc, saves, settingsState, localSettings, isLoading>>
  /\ UNCHANGED <<fvars, evars, dvars, route, tz, invalidDateLog, snapshot, pdf,
                 entriesCol, usedIds, xvars, isImporting, isResetting, imp, rst, gs>>

\* the sorted elements of a set of strings: Array.from(set).sort()
SortedList(S) == OrderedBy(S, [a \in S, b \in S |-> CodeCompare(a, b) < 0])

\* updatedSettings of handleCSVImport (Settings.tsx:228-232, 256-274,
\* 289-294) for the rows of a file: the properties and the categories of
\* the entries made of the rows join those of the current settings
ImportedSettings(current, file) ==
  LET made == { CsvEntry(file[k], <<>>, <<>>) : k \in 1 .. Len(file) }
  IN [ current EXCEPT
         !.properties =
           SortedList({ current.properties[n] : n \in 1 .. Len(current.properties) }
                        \cup { e.property : e \in { x \in made : x.property # <<>> } }),
         !.incomeCategories =
           SortedList({ current.incomeCategories[n] : n \in 1 .. Len(current.incomeCategories) }
                        \cup { e.category : e \in { x \in made : x.type = INCOME
                                                               /\ x.category # <<>> } }),
         !.expenseCategories =
           SortedList({ current.expenseCategories[n] : n \in 1 .. Len(current.expenseCategories) }
                        \cup { e.category : e \in { x \in made : x.type = EXPENSE
                                                               /\ x.category # <<>> } }) ]

\* handleCSVImport for a chosen file, up to the await of the parse
\* (Settings.tsx:200-215)
handleCSVImport(file) ==
  /\ route = "settings"
  /\ imp.pc = "idle"
  /\ isImporting' = TRUE
  /\ imp' = [NoImport EXCEPT !.pc = "parse", !.file = file]
  /\ UNCHANGED <<fvars, evars, dvars, route, tz, invalidDateLog, snapshot, pdf,
                 svars, xvars, settingsState, localSettings, isLoading, isResetting,
                 save, rst, gs>>

\* where the import goes after currentSettings: to the first row, or to
\* saveSettings when the file has no row
FirstPlace(file) == IF Len(file) > 0 THEN "addDoc" ELSE "saveSettings"
ImportGoes(place, call) ==
  /\ imp' = [call EXCEPT !.pc = place,
                         !.row = IF place = "addDoc" /\ call.row = 0 THEN 1 ELSE call.row,
                         !.attempt = IF call.attempt = 0 THEN 1 ELSE call.attempt,
                         !.saveCalls = IF place = "saveSettings" /\ call.saveCalls = 0
                                       THEN 1 ELSE call.saveCalls]
  /\ UNCHANGED isImporting
\* the end of the import: its catch and its finally (lines 325-336)
ImportEnds(how, log) ==
  /\ imp' = [imp EXCEPT !.pc = "idle", !.end = how, !.log = log]
  /\ isImporting' = FALSE

\* the import that goes on to the next row when a row has failed twice
importStep_SkipRow(failed, id) ==
  /\ \/ /\ imp.pc = "parse"
        /\ IF failed THEN ImportEnds("error", imp.log)
           ELSE IF settingsState # <<>>
           THEN ImportGoes(FirstPlace(imp.file), [imp EXCEPT !.current = settingsState])
           ELSE ImportGoes("getSettings", imp)
        /\ IF ~failed /\ settingsState = <<>>
           THEN CallGetSettings("handleCSVImport") ELSE UNCHANGED gs
        /\ UNCHANGED <<svars, settingsState, localSettings>>
     \/ /\ imp.pc = "getSettings"
        /\ gs["handleCSVImport"].pc \in {"returned", "thrown"}
        /\ ~failed
        /\ IF gs["handleCSVImport"].pc = "thrown" THEN ImportEnds("error", imp.log)
           ELSE ImportGoes(FirstPlace(imp.file),
                           [imp EXCEPT !.current = gs["handleCSVImport"].value])
        /\ gs' = [gs EXCEPT !["handleCSVImport"] = NoCall]
        /\ UNCHANGED <<svars, settingsState, localSettings>>
     \/ /\ imp.pc = "addDoc"
        /\ IF failed
           THEN /\ IF imp.attempt = 2
                   THEN ImportGoes(IF imp.row < Len(imp.file) THEN "addDoc" ELSE "saveSettings",
                                   [imp EXCEPT !.log = Append(imp.log, <<imp.row, "error">>),
                                               !.row = IF imp.row < Len(imp.file)
                                                       THEN imp.row + 1 ELSE imp.row,
                                               !.attempt = 1])
                   ELSE ImportGoes("timer", [imp EXCEPT !.log = Append(imp.log, <<imp.row, "error">>)])
                /\ UNCHANGED <<entriesCol, usedIds>>
           ELSE /\ id \notin usedIds
                /\ entriesCol' = entriesCol \cup {id}
                /\ usedIds' = usedIds \cup {id}
                /\ ImportGoes(IF imp.row < Len(imp.file) THEN "addDoc" ELSE "saveSettings",
                              [imp EXCEPT !.log = Append(imp.log, <<imp.row, "added">>),
                                          !.added = imp.added \cup {id},
                                          !.row = IF imp.row < Len(imp.file)
                                                  THEN imp.row + 1 ELSE imp.row,
                                          !.attempt = 1])
        /\ UNCHANGED <<settingsDoc, saves, settingsState, localSettings, gs>>
     \/ /\ imp.pc = "timer"
        /\ ~failed
        /\ ImportGoes("addDoc", [imp EXCEPT !.attempt = 2])
        /\ UNCHANGED <<svars, settingsState, localSettings, gs>>
     \/ /\ imp.pc = "saveSettings"
        /\ IF failed
           THEN /\ IF imp.attempt = 2 THEN ImportEnds("error", imp.log)
                   ELSE ImportGoes("saveTimer", imp)
                /\ UNCHANGED <<settingsDoc, saves, settingsState, localSettings>>
           ELSE /\ settingsDoc' = <<ImportedSettings(imp.current[1], imp.file)>>
                /\ saves' = saves + 1
                /\ settingsState' = <<ImportedSettings(imp.current[1], imp.file)>>
                /\ localSettings' = <<ImportedSettings(imp.current[1], imp.file)>>
                /\ ImportEnds("imported", imp.log)
        /\ UNCHANGED <<entriesCol, usedIds, gs>>
     \/ /\ imp.pc = "saveTimer"
        /\ ~failed
        /\ ImportGoes("saveSettings", [imp EXCEPT !.attempt = 2, !.saveCalls = 2])
        /\ UNCHANGED <<svars, settingsState, localSettings, gs>>
  /\ UNCHANGED <<fvars, evars, dvars, route, tz, invalidDateLog, snapshot, pdf,
                 xvars, isLoading, isResetting, save, rst>>

\* one step of handleCSVImport (Settings.tsx:208-337): the parse settles, the
\* getSettings called for want of loaded settings has ended (line 227), an
\* addDoc or the saveSettings settles, or a timer before a second attempt
\* fires. id is the document id that addDoc generates.
importStep(failed, id) ==
  /\ \/ /\ imp.pc = "parse"
        /\ IF failed THEN ImportEnds("error", imp.log)
           ELSE IF settingsState # <<>>
           THEN ImportGoes(FirstPlace(imp.file), [imp EXCEPT !.current = settingsState])
           ELSE ImportGoes("getSettings", imp)
        /\ IF ~failed /\ settingsState = <<>>
           THEN CallGetSettings("handleCSVImport") ELSE UNCHANGED gs
        /\ UNCHANGED <<svars, settingsState, localSettings>>
     \/ /\ imp.pc = "getSettings"
        /\ gs["handleCSVImport"].pc \in {"returned", "thrown"}
        /\ ~failed
        /\ IF gs["handleCSVImport"].pc = "thrown" THEN ImportEnds("error", imp.log)
           ELSE ImportGoes(FirstPlace(imp.file),
                           [imp EXCEPT !.current = gs["handleCSVImport"].value])
        /\ gs' = [gs EXCEPT !["handleCSVImport"] = NoCall]
        /\ UNCHANGED <<svars, settingsState, localSettings>>
     \/ /\ imp.pc = "addDoc"
        /\ IF failed
           THEN /\ IF imp.attempt = 2
                   THEN ImportEnds("error", Append(imp.log, <<imp.row, "error">>))
                   ELSE ImportGoes("timer", [imp EXCEPT !.log = Append(imp.log, <<imp.row, "error">>)])
                /\ UNCHANGED <<entriesCol, usedIds>>
           ELSE /\ id \notin usedIds
                /\ entriesCol' = entriesCol \cup {id}
                /\ usedIds' = usedIds \cup {id}
                /\ ImportGoes(IF imp.row < Len(imp.file) THEN "addDoc" ELSE "saveSettings",
                              [imp EXCEPT !.log = Append(imp.log, <<imp.row, "added">>),
                                          !.added = imp.added \cup {id},
                                          !.row = IF imp.row < Len(imp.file)
                                                  THEN imp.row + 1 ELSE imp.row,
                                          !.attempt = 1])
        /\ UNCHANGED <<settingsDoc, saves, settingsState, localSettings, gs>>
     \/ /\ imp.pc = "timer"
        /\ ~failed
        /\ ImportGoes("addDoc", [imp EXCEPT !.attempt = 2])
        /\ UNCHANGED <<svars, settingsState, localSettings, gs>>
     \/ /\ imp.pc = "saveSettings"
        /\ IF failed
           THEN /\ IF imp.attempt = 2 THEN ImportEnds("error", imp.log)
                   ELSE ImportGoes("saveTimer", imp)
                /\ UNCHANGED <<settingsDoc, saves, settingsState, localSettings>>
           ELSE /\ settingsDoc' = <<ImportedSettings(imp.current[1], imp.file)>>
                /\ saves' = saves + 1
                /\ settingsState' = <<ImportedSettings(imp.current[1], imp.file)>>
                /\ localSettings' = <<ImportedSettings(imp.current[1], imp.file)>>
                /\ ImportEnds("imported", imp.log)
        /\ UNCHANGED <<entriesCol, usedIds, gs>>
     \/ /\ imp.pc = "saveTimer"
        /\ ~failed
        /\ ImportGoes("saveSettings", [imp EXCEPT !.attempt = 2, !.saveCalls = 2])
        /\ UNCHANGED <<svars, settingsState, localSettings, gs>>
  /\ UNCHANGED <<fvars, evars, dvars, route, tz, invalidDateLog, snapshot, pdf,
                 xvars, isLoading, isResetting, save, rst>>

-----------------------------------------------------------------------------
(* Stored documents and user inputs that drive the views *)

MaxDocs == 2            \* documents in the collection at a time
MaxPredicates == 2      \* filter predicates (search term included) set at a time
MaxSortDocs == 3        \* documents in the collection when the views sort
MaxRows == 23           \* documents in the collection when the view pages
MaxBoardDocs == 2       \* documents in the collection under totals and reminders
MaxOpenDays == 7        \* days the Dashboard stays open after 2025-03-08
MaxWrites == 2          \* documents that clients add to the collection
MaxSaves == 2           \* submits of the settings form that reach the database

RENT == <<"R", "e", "n", "t">>
TAX == <<"T", "a", "x">>
P1 == <<"P", "1">>
P2 == <<"P", "2">>

\* Documents as the entry form, the CSV import (which stores row.date
\* unchecked, lines 236-254) or another client may have written them
DocPool ==
  { [ id |-> <<"e", "1">>, name |-> <<"A", "l">>, contact |-> <<"9", "1">>,
      type |-> INCOME, category |-> RENT, amount |-> 5, date |-> IsoDate(2025, 3, 1),
      renewDate |-> IsoDate(2025, 3, 10), renewDateReminder |-> 5, property |-> P1 ],
    [ id |-> <<"e", "2">>, name |-> <<"b", "o">>, contact |-> <<"9", "2">>,
      type |-> EXPENSE, category |-> TAX, amount |-> 10, date |-> IsoDate(2025, 3, 31),
      renewDate |-> IsoDate(2025, 4, 30), renewDateReminder |-> 0, property |-> P2 ],
    [ id |-> <<"e", "3">>, name |-> <<"a", "l">>, contact |-> <<"9", "1">>,
      type |-> EXPENSE, category |-> RENT, amount |-> 5, date |-> IsoDate(2025, 4, 1),
      renewDate |-> IsoDate(2025, 4, 11), renewDateReminder |-> 10, property |-> P1 ],
    [ id |-> <<"e", "4">>, name |-> <<"B", "o">>, contact |-> <<"9", "5">>,
      type |-> <<>>, category |-> TAX, amount |-> 10, date |-> <<"n", "/", "a">>,
      renewDate |-> <<>>, renewDateReminder |-> 7, property |-> P2 ],
    [ id |-> <<"e", "5">>, name |-> <<"A", "L">>, contact |-> <<"9", "6">>,
      type |-> INCOME, category |-> RENT, amount |-> 10, date |-> IsoDate(2025, 3, 1),
      renewDate |-> IsoDate(2025, 3, 10), renewDateReminder |-> 15, property |-> P2 ] }

\* Documents around the ends of a month and of a year, for the Dashboard
DashboardPool ==
  { [ id |-> <<"d", "1">>, name |-> <<"A", "l">>, contact |-> <<"9", "1">>,
      type |-> INCOME, category |-> RENT, amount |-> 5, date |-> IsoDate(2025, 3, 1),
      renewDate |-> IsoDate(2025, 3, 10), renewDateReminder |-> 5, property |-> P1 ],
    [ id |-> <<"d", "2">>, name |-> <<"b", "o">>, contact |-> <<"9", "2">>,
      type |-> EXPENSE, category |-> TAX, amount |-> 10, date |-> IsoDate(2025, 3, 31),
      renewDate |-> IsoDate(2025, 4, 30), renewDateReminder |-> 0, property |-> P2 ],
    [ id |-> <<"d", "3">>, name |-> <<"C", "a", "l">>, contact |-> <<"9", "3">>,
      type |-> <<>>, category |-> RENT, amount |-> 20, date |-> <<"n", "/", "a">>,
      renewDate |-> <<>>, renewDateReminder |-> 7, property |-> P1 ],
    [ id |-> <<"d", "4">>, name |-> <<"a", "l">>, contact |-> <<"9", "1">>,
      type |-> EXPENSE, category |-> RENT, amount |-> 5, date |-> IsoDate(2025, 4, 1),
      renewDate |-> IsoDate(2025, 4, 11), renewDateReminder |-> 10, property |-> P1 ],
    [ id |-> <<"d", "5">>, name |-> <<"B", "o">>, contact |-> <<"9", "5">>,
      type |-> INCOME, category |-> TAX, amount |-> 10, date |-> IsoDate(2025, 1, 1),
      renewDate |-> IsoDate(2025, 3, 1), renewDateReminder |-> 15, property |-> P2 ] }

\* Documents for the totals and the reminders: renew dates before, at and
\* after the days the Dashboard is open, a type that is neither 'Income' nor
\* 'Expense' (the listeners take data.type as it is stored), a missing type,
\* an unparsable renew date, a reminder outside [0, 5, 10, 15], and a name
\* and a property with a double quote in them
TRANSFER == <<"T", "r", "a", "n", "s", "f", "e", "r">>
BoardPool ==
  { [ id |-> <<"b", "1">>, name |-> <<"A", "l">>, contact |-> <<"9", "1">>,
      type |-> INCOME, category |-> RENT, amount |-> 5, date |-> IsoDate(2025, 3, 1),
      renewDate |-> IsoDate(2025, 3, 10), renewDateReminder |-> 5, property |-> P1 ],
    [ id |-> <<"b", "2">>, name |-> <<"b", "o">>, contact |-> <<"9", "2">>,
      type |-> INCOME, category |-> RENT, amount |-> 10, date |-> IsoDate(2025, 3, 5),
      renewDate |-> IsoDate(2025, 3, 14), renewDateReminder |-> 5, property |-> P2 ],
    [ id |-> <<"b", "3">>, name |-> <<"a", "l">>, contact |-> <<"9", "1">>,
      type |-> EXPENSE, category |-> TAX, amount |-> 10, date |-> IsoDate(2025, 3, 31),
      renewDate |-> IsoDate(2025, 3, 8), renewDateReminder |-> 10, property |-> P1 ],
    [ id |-> <<"b", "4">>, name |-> <<"B", "o">>, contact |-> <<"9", "5">>,
      type |-> TRANSFER, category |-> TAX, amount |-> 20, date |-> IsoDate(2025, 3, 2),
      renewDate |-> IsoDate(2025, 3, 1), renewDateReminder |-> 15, property |-> P2 ],
    [ id |-> <<"b", "5">>, name |-> <<"C", DQ, "l">>, contact |-> <<"9", "3">>,
      type |-> <<>>, category |-> RENT, amount |-> 5, date |-> IsoDate(2025, 3, 3),
      renewDate |-> <<"n", "/", "a">>, renewDateReminder |-> 5,
      property |-> <<"P", DQ, "1">> ],
    [ id |-> <<"b", "6">>, name |-> <<"A", "L">>, contact |-> <<"9", "6">>,
      type |-> EXPENSE, category |-> RENT, amount |-> 5, date |-> IsoDate(2025, 3, 4),
      renewDate |-> IsoDate(2025, 3, 10), renewDateReminder |-> 7, property |-> P2 ] }

\* Rows of an imported CSV file, under the document ids the store gives them:
\* a reminder outside [0, 5, 10, 15], a type in lower case and no dates; a
\* reminder of the set, text for the amount and for the date
CsvRows ==
  { [ docId |-> <<"c", "1">>, name |-> <<"D", "i">>, contact |-> <<"9", "7">>,
      type |-> <<"e", "x", "p", "e", "n", "s", "e">>, category |-> TAX,
      amount |-> <<"1", "2", "x">>, date |-> <<>>, renewDate |-> <<>>,
      renewDateReminder |-> <<"7">>, property |-> P1 ],
    [ docId |-> <<"c", "2">>, name |-> <<"E", "d">>, contact |-> <<"9", "8">>,
      type |-> EXPENSE, category |-> RENT,
      amount |-> <<"a", "b", "c">>, date |-> <<"n", "/", "a">>,
      renewDate |-> IsoDate(2025, 3, 12), renewDateReminder |-> <<"1", "5">>,
      property |-> P2 ] }
\* the collection that the listeners read: the documents of the import, made
\* on 2025-03-08, and the documents of BoardPool that no write path of the
\* application makes
StorePool ==
  { CsvEntry(row, row.docId, IsoDate(2025, 3, 8)) : row \in CsvRows }
  \cup { d \in BoardPool : \/ d.renewDateReminder \notin ReminderValues
                           \/ d.type \notin {INCOME, EXPENSE} }

\* Settings as the Settings page saves them (free text with {{...}} tokens):
\* the default body template (api.ts:152) with {{monthyear}} and a token that is
\* not supported added, and a body that names the entry twice; the default file name
\* (api.ts:153) and one made of the id and the name
SettingsPool ==
  { [ pdfTemplate |-> body, pdfFilename |-> name ] :
      body \in { << "ID: ", "{{id}}", "Name: ", "{{name}}", "Contact: ", "{{contact}}",
                    "Type: ", "{{type}}", "Category: ", "{{category}}", "Amount: ",
                    "{{currency}}", "{{amount}}", "Amount in Words: ", "{{amountInWords}}",
                    "Date: ", "{{date}}", "{{monthyear}}", "Renew Date: ", "{{renewDate}}",
                    "Reminder: ", "{{renewDateReminder}}", " days", "Property: ",
                    "{{property}}", "{{signature}}" >>,
                 << "Dear ", "{{name}}", ", received from ", "{{name}}" >> },
      name \in { << "{{name}}", "_", "{{date}}", ".pdf" >>,
                 << "{{id}}", "-", "{{name}}" >> } }

\* What the settings form holds at a submit: the fields as fetched, or
\* the lists retyped out of order with blanks and an empty item
FormPool ==
  { [ properties |-> <<"P", "2", ",", " ", "P", "1", ",", ",">>,
      incomeCategories |-> <<"R", "e", "n", "t">>,
      expenseCategories |-> <<"T", "a", "x", ",", "R", "e", "n", "t", " ">>,
      pdfTemplate |-> DefaultSettings.pdfTemplate,
      pdfFilename |-> DefaultSettings.pdfFilename ],
    [ properties |-> <<"P", "1">>,
      incomeCategories |-> <<>>,
      expenseCategories |-> <<"T", "a", "x">>,
      pdfTemplate |-> << "Dear ", "{{name}}" >>,
      pdfFilename |-> << "{{id}}" >> ] }

\* CSV files: their rows in the order of the file
ImportFiles ==
  LET row == [id \in {<<"c", "1">>, <<"c", "2">>} |-> CHOOSE r \in CsvRows : r.docId = id]
  IN { << row[<<"c", "1">>], row[<<"c", "2">>] >>, << row[<<"c", "2">>] >>, <<>> }
\* the document ids that addDoc generates for the rows
ImportIds == { <<"i", "1">>, <<"i", "2">> }

\* n documents as the entry form writes them, three to a date
RowDocs(n) ==
  { [ id |-> <<"r">> \o Pad(k, 2), name |-> <<"N">> \o NumStr(k % 4),
      contact |-> <<"9">>, type |-> IF k % 2 = 0 THEN INCOME ELSE EXPENSE,
      category |-> RENT, amount |-> k % 5, date |-> IsoDate(2025, 3, 1 + (k \div 3)),
      renewDate |-> <<>>, renewDateReminder |-> 0, property |-> P1 ] : k \in 1 .. n }

\* the documents of pool that the mounted view shows, and the collections
\* one write (an added or a deleted document) away from them
ShownDocs(pool) == { d \in pool : \E i \in 1 .. Len(entries) : entries[i].id = d.id }
NextCollections(pool, max) ==
  { ShownDocs(pool) \cup {d} : d \in { x \in pool : Cardinality(ShownDocs(pool)) < max } }
  \cup { ShownDocs(pool) \ {d} : d \in ShownDocs(pool) }

\* the browser's time zone: UTC, and one to the west and one to the east of it
TzOffsets == {-1, 0, 1}

\* readings of the clock: 2025-03-08 early, 2025-03-31 late, 2025-04-01T00:00Z
NowInstants ==
  { DaysFromCivil(2025, 3, 8) * TicksPerDay + 1,
    DaysFromCivil(2025, 3, 31) * TicksPerDay + (TicksPerDay - 1),
    DaysFromCivil(2025, 4, 1) * TicksPerDay }
\* the readings a computation may get: not before the latest one
Clock == { t \in NowInstants : t >= now }

\* ranges the range picker offers, as first and last day
RangeDays ==
  { <<a, b>> \in { <<2025, 3, 1>>, <<2025, 3, 31>> } \X { <<2025, 3, 1>>, <<2025, 3, 31>> } :
      DaysFromCivil(a[1], a[2], a[3]) <= DaysFromCivil(b[1], b[2], b[3]) }

\* the page-size select (lines 1319-1321)
PageSizes == {10, 15, 20}

SearchTerms == {<<>>, <<"a", "L">>, <<"5">>}

FilterFields == {"name", "contact", "type", "category", "amountMin", "amountMax",
                 "dateStart", "dateEnd", "property"}
FilterValues(field) ==
  CASE field = "name" -> { <<>>, <<"A">> }
    [] field = "contact" -> { <<>>, <<"1">> }
    [] field = "type" -> { ALL, INCOME, EXPENSE }
    [] field = "category" -> { ALL, RENT }
    [] field = "amountMin" -> { <<>>, <<"1", "0">> }
    [] field = "amountMax" -> { <<>>, <<"1", "0">> }
    [] field = "dateStart" -> { <<>>, IsoDate(2025, 3, 1) }
    [] field = "dateEnd" -> { <<>>, IsoDate(2025, 3, 31) }
    [] field = "property" -> { ALL, P1 }

\* the number of predicates that fc and term set
PredicatesSet(fc, term) ==
  Cardinality({ f \in FilterFields :
                  fc[f] # (IF f \in {"type", "category", "property"} THEN ALL ELSE <<>>) })
  + (IF term # <<>> THEN 1 ELSE 0)

-----------------------------------------------------------------------------
(* Specifications *)

\* the application opens on the Entries view (part_000:31); what belongs to
\* the Dashboard, not mounted, is kept at fixed values
Init ==
  /\ fpc = "idle"
  /\ num = Whole(0)
  /\ words = <<>>
  /\ entries = <<>>
  /\ searchTerm = <<>>
  /\ filterConfig = DefaultFilterConfig
  /\ sortConfig = [key |-> "date", direction |-> "desc"]
  /\ currentPage = 1
  /\ entriesPerPage = 10
  /\ filter = CURRENT_MONTH
  /\ customRange = [startDate |-> 0, endDate |-> 0]
  /\ now = 0
  /\ today = <<>>
  /\ route = "entries"
  /\ tz = 0
  /\ invalidDateLog = <<>>
  /\ snapshot = {}
  /\ pdf = [text |-> <<>>, filename |-> <<>>]
  /\ entriesCol = {}
  /\ settingsDoc = <<>>
  /\ usedIds = {}
  /\ saves = 0
  /\ editingEntry = <<>>
  /\ isDialogOpen = FALSE
  /\ isDeleting = <<>>
  /\ del = NoDelete
  /\ sub = NoSubmit
  /\ settingsState = <<>>
  /\ localSettings = <<>>
  /\ isLoading = FALSE
  /\ isImporting = FALSE
  /\ isResetting = FALSE
  /\ save = NoSave
  /\ imp = NoImport
  /\ rst = NoReset
  /\ gs = [c \in Clients |-> NoCall]

\* the router replaces the mounted view (part_000:27-32): the view left is
\* unmounted and the view entered starts from its initial states, the
\* Dashboard at some reading of the clock in some time zone
Navigate ==
  /\ route' = IF route = "entries" THEN "dashboard" ELSE "entries"
  /\ entries' = <<>>
  /\ searchTerm' = <<>>
  /\ filterConfig' = DefaultFilterConfig
  /\ sortConfig' = [key |-> "date", direction |-> "desc"]
  /\ currentPage' = 1
  /\ entriesPerPage' = 10
  /\ filter' = CURRENT_MONTH
  /\ \E clock \in NowInstants : \E zone \in TzOffsets :
       IF route' = "dashboard"
       THEN /\ customRange' = [startDate |-> clock, endDate |-> clock]
            /\ now' = clock
            /\ today' = ToISODate(clock)
            /\ tz' = zone
       ELSE /\ customRange' = [startDate |-> 0, endDate |-> 0]
            /\ now' = 0
            /\ today' = <<>>
            /\ tz' = 0
  /\ invalidDateLog' = <<>>
  /\ snapshot' = {}
  /\ pdf' = [text |-> <<>>, filename |-> <<>>]
  /\ editingEntry' = <<>>
  /\ isDialogOpen' = FALSE
  /\ isDeleting' = <<>>
  /\ UNCHANGED <<fvars, svars, del, sub, pvars>>

\* The formatter called by a view
NextWords ==
  \/ \E x \in AmountInputs : Convert(x)
  \/ Consume
SpecWords == Init /\ [][NextWords]_vars

\* The two views under snapshots, their filter controls and navigation
NextViews ==
  \/ \E docs \in NextCollections(DocPool, MaxDocs) : EntriesOnSnapshot(docs)
  \/ \E v \in SearchTerms :
       PredicatesSet(filterConfig, v) <= MaxPredicates /\ SetSearchTerm(v)
  \/ \E field \in FilterFields : \E value \in FilterValues(field) :
       /\ PredicatesSet([filterConfig EXCEPT ![field] = value], searchTerm)
            <= MaxPredicates
       /\ HandleFilterChange(field, value)
  \/ ClearFilters
  \/ \E docs \in NextCollections(DashboardPool, MaxDocs) : \E clock \in Clock :
       DashboardOnSnapshot(docs, clock)
  \/ \E value \in Shortcuts \cup uniqueMonthsOf(entries, tz) : \E clock \in Clock :
       SetFilter(value, clock)
  \/ \E range \in RangeDays : \E clock \in Clock :
       SetCustomRange(range[1], range[2], clock)
  \/ Navigate
SpecViews == Init /\ [][NextViews]_vars

\* The views under snapshots and clicks on the column headers
NextSort ==
  \/ \E docs \in NextCollections(DocPool, MaxSortDocs) : EntriesOnSnapshot(docs)
  \/ \E key \in SortKeys : HandleSort(key)
  \/ \E docs \in NextCollections(DashboardPool, MaxSortDocs) : \E clock \in Clock :
       DashboardOnSnapshot(docs, clock)
  \/ \E key \in DashboardSortKeys : DashboardHandleSort(key)
  \/ Navigate
SpecSort == Init /\ [][NextSort]_vars

\* The Entries view under snapshots of up to MaxRows documents, each one
\* write (a document more or a document less) after the one shown, and its pager
NextPages ==
  \/ \E n \in {Len(entries) - 1, Len(entries) + 1} \cap (0 .. MaxRows) :
       EntriesOnSnapshot(RowDocs(n))
  \/ \E page \in 0 .. (totalPages + 1) : HandlePageChange(page)
  \/ \E value \in PageSizes : SetEntriesPerPage(value)
SpecPages == Init /\ [][NextPages]_vars

\* The totals and the reminders under snapshots, the filter select and
\* a render on each later day. A snapshot or a selection comes at the latest
\* reading of the clock; Render lets the days pass, one at a time. The browser is in UTC
\* (neither the totals nor the reminders read local time).
LatestReading ==
  IF route = "dashboard" /\ DateParse(today)[1] > now THEN DateParse(today)[1] ELSE now
\* midnight of the day after today, while the Dashboard stays open
NextDay ==
  { d * TicksPerDay :
      d \in { DateParse(today)[1] \div TicksPerDay + 1 }
              \cap (0 .. DaysFromCivil(2025, 3, 8) + MaxOpenDays) }
NextBoard ==
  \/ \E docs \in NextCollections(BoardPool, MaxBoardDocs) : EntriesOnSnapshot(docs)
  \/ \E docs \in NextCollections(BoardPool, MaxBoardDocs) :
       DashboardOnSnapshot(docs, LatestReading)
  \/ \E value \in Shortcuts \cup uniqueMonthsOf(entries, tz) :
       SetFilter(value, LatestReading)
  \/ route = "dashboard" /\ \E clock \in NextDay : Render(clock)
  \/ Navigate /\ tz' = 0
SpecBoard == Init /\ [][NextBoard]_vars

\* The two views under the snapshots of a collection that the CSV import and
\* other clients wrote
NextStore ==
  \/ \E docs \in NextCollections(StorePool, MaxBoardDocs) : EntriesOnSnapshot(docs)
  \/ \E docs \in NextCollections(StorePool, MaxBoardDocs) : \E clock \in Clock :
       DashboardOnSnapshot(docs, clock)
  \/ Navigate
SpecStore == Init /\ [][NextStore]_vars

\* The Entries view under snapshots and the PDF button of its rows
NextPdf ==
  \/ \E docs \in NextCollections(DocPool, MaxDocs) : EntriesOnSnapshot(docs)
  \/ \E i \in 1 .. Len(paginatedEntries) : \E settings \in SettingsPool :
       \E currency \in {"INR", "USD", "EUR"} :
         generatePDF(paginatedEntries[i], settings, currency)
SpecPdf == Init /\ [][NextPdf]_vars

\* The Settings view and its CSV import; a request may fail or not
NextImport ==
  \/ OpenSettings
  \/ \E failed \in BOOLEAN : getSettings("fetchSettings", failed)
  \/ fetchSettings
  \/ \E file \in ImportFiles : saves < MaxSaves /\ handleCSVImport(file)
  \/ \E failed \in BOOLEAN : \E id \in ImportIds : importStep(failed, id)
  \/ \E failed \in BOOLEAN : getSettings("handleCSVImport", failed)
SpecImport == Init /\ [][NextImport]_vars

\* the documents of DocPool that the collection holds
StoredDocs == { d \in DocPool : d.id \in entriesCol }
\* the document ids that addDoc generates
DocIds == { d.id : d \in DocPool }

\* The Entries view and its dialog, with another client that adds and
\* deletes documents; a request may fail or not
NextEdit ==
  \/ \E id \in DocIds : Cardinality(usedIds) < MaxWrites /\ addEntry(id)
  \/ \E id \in DocIds : OtherDelete(id)
  \/ StoredDocs # snapshot /\ EntriesOnSnapshot(StoredDocs)
  \/ \E i \in DOMAIN entries : handleEdit(entries[i])
  \/ \E i \in DOMAIN entries : handleDuplicate(entries[i])
  \/ handleAddEntry
  \/ handleCancel
  \/ onOpenChange(FALSE)
  \/ EntriesOnSubmit
  \/ \E failed, texted \in BOOLEAN : \E newId \in DocIds :
       Cardinality(usedIds) < MaxWrites + 1 /\ EntriesOnSubmitStep(failed, texted, newId)
SpecEdit == Init /\ [][NextEdit]_vars

\* The Settings view and its Reset button, with another client that adds
\* documents; a request may fail or not
NextReset ==
  \/ OpenSettings
  \/ \E failed \in BOOLEAN : getSettings("fetchSettings", failed)
  \/ fetchSettings
  \/ \E id \in DocIds : Cardinality(usedIds) < MaxWrites + 1 /\ addEntry(id)
  \/ handleResetEntries
  \/ \E failed \in BOOLEAN : resetEntries(failed)
SpecReset == Init /\ [][NextReset]_vars

\* The Settings view: its fetch of the settings, its form, and another
\* client that calls getSettings; a request may fail or not
NextSettings ==
  \/ OpenSettings
  \/ \E failed \in BOOLEAN : getSettings("fetchSettings", failed)
  \/ fetchSettings
  \/ \E data \in FormPool : saves < MaxSaves /\ SettingsOnSubmit(data)
  \/ \E failed \in BOOLEAN : SettingsOnSubmitStep(failed)
  \/ /\ CallGetSettings("other")
     /\ UNCHANGED <<fvars, evars, dvars, route, tz, invalidDateLog, snapshot, pdf,
                    svars, xvars, settingsState, localSettings, isLoading, isImporting,
                    isResetting, save, imp, rst>>
  \/ \E failed \in BOOLEAN : getSettings("other", failed)
SpecSettings == Init /\ [][NextSettings]_vars

\* The Entries view and its Delete buttons, with another client that adds
\* and deletes documents; a request may fail or not. Each await of a call in
\* flight ends (the request settles, the timer fires).
NextDelete ==
  \/ \E id \in DocIds : Cardinality(usedIds) < MaxWrites /\ addEntry(id)
  \/ \E id \in DocIds : OtherDelete(id)
  \/ StoredDocs # snapshot /\ EntriesOnSnapshot(StoredDocs)
  \/ \E id \in DocIds : handleDelete(id)
  \/ \E failed \in BOOLEAN : handleDeleteChecked(failed)
  \/ \E failed \in BOOLEAN : deleteEntry(failed)
DeleteStep == \E failed \in BOOLEAN : handleDeleteChecked(failed) \/ deleteEntry(failed)
SpecDelete == Init /\ [][NextDelete]_vars /\ WF_vars(DeleteStep)

-----------------------------------------------------------------------------
(* Properties of the formatter *)

Returned == fpc = "returned"

RECURSIVE CountTok(_, _)
CountTok(s, w) ==
  IF s = <<>> THEN 0 ELSE (IF s[1] = w THEN 1 ELSE 0) + CountTok(Tail(s), w)

NonZeroBuckets(x) ==
  (IF crore(x) > 0 THEN 1 ELSE 0) + (IF lakh(x) > 0 THEN 1 ELSE 0)
  + (IF thousand(x) > 0 THEN 1 ELSE 0) + (IF hundred(x) > 0 THEN 1 ELSE 0)
  + (IF ~IsZero(remainder(x)) THEN 1 ELSE 0)

MagnitudeWords == <<"Crore", "Lakh", "Thousand", "Hundred">>
Pos(s, w) == CHOOSE i \in 1 .. Len(s) : s[i] = w

\* C1: numberToWordsIndian returns "Zero" for 0, "One Lakh" for 100000,
\* "One Lakh and Five" for 100005 and "Twelve Lakh Thirty Four Thousand Five
\* Hundred and Sixty Seven" for 1234567.
C1_Examples ==
  Returned =>
    /\ (num = Whole(0) => words = <<"Zero">>)
    /\ (num = Whole(100000) => words = <<"One", Sp, "Lakh">>)
    /\ (num = Whole(100005) => words = <<"One", Sp, "Lakh", Sp, "and", Sp, "Five">>)
    /\ (num = Whole(1234567) =>
          words = <<"Twelve", Sp, "Lakh", Sp, "Thirty", Sp, "Four", Sp, "Thousand",
                    Sp, "Five", Sp, "Hundred", Sp, "and", Sp, "Sixty", Sp, "Seven">>)

C1_Witness ==
  /\ Returned
  /\ num = Whole(1234567)
  /\ Len(words) = 19

\* C2: for a positive integer amount with at least two non-zero buckets the
\* output holds the word "and" exactly once, immediately before the rendering
\* of the lowest non-zero bucket; with exactly one non-zero bucket it holds no
\* "and".
C2_AndPlacement ==
  (Returned /\ IsInt(num) /\ ~IsZero(num)) =>
    LET lowest == Parts(num)[Len(Parts(num))]
    IN /\ NonZeroBuckets(num) >= 2 =>
            /\ CountTok(words, "and") = 1
            /\ LET i == Pos(words, "and")
               IN /\ i > 2
                  /\ words[i - 1] = Sp
                  /\ words[i - 2] # Sp
                  /\ SubSeq(words, i + 1, Len(words)) = <<Sp>> \o lowest
       /\ NonZeroBuckets(num) = 1 => CountTok(words, "and") = 0

C2_Witness ==
  /\ Returned
  /\ IsInt(num)
  /\ NonZeroBuckets(num) = 5
  /\ CountTok(words, "and") = 1

\* C3: for a non-negative integer amount the output holds Crore, Lakh,
\* Thousand or Hundred exactly when that bucket is non-zero, the rendered
\* buckets come in descending magnitude, and the output has no leading or
\* trailing blank and no two adjacent blanks.
C3_MagnitudeWords ==
  (Returned /\ IsInt(num)) =>
    LET bucket == <<crore(num), lakh(num), thousand(num), hundred(num)>>
    IN /\ \A k \in 1 .. 4 :
            CountTok(words, MagnitudeWords[k]) = (IF bucket[k] > 0 THEN 1 ELSE 0)
       /\ \A j, k \in 1 .. 4 :
            (j < k /\ bucket[j] > 0 /\ bucket[k] > 0) =>
              Pos(words, MagnitudeWords[j]) < Pos(words, MagnitudeWords[k])
       /\ ~IsZero(num) =>
            ((words[Len(words)] \in {MagnitudeWords[k] : k \in 1 .. 4})
               <=> IsZero(remainder(num)))
       /\ words # <<>>
       /\ words[1] # Sp
       /\ words[Len(words)] # Sp
       /\ \A i \in 1 .. (Len(words) - 1) : ~(words[i] = Sp /\ words[i + 1] = Sp)

C3_Witness ==
  /\ Returned
  /\ IsInt(num)
  /\ crore(num) > 0 /\ lakh(num) = 0 /\ thousand(num) > 0
  /\ hundred(num) = 0 /\ ~IsZero(remainder(num))
  /\ CountTok(words, "Lakh") = 0 /\ CountTok(words, "Thousand") = 1

\* C4: numberToWordsIndian ignores the fractional part of its input: the
\* string returned for x is the string returned for floor(x).
C4_FractionIgnored ==
  Returned => words = numberToWordsIndian(Whole(Floor(num)))


\* the string without the word "and" and the blank that follows it
RECURSIVE WithoutAnd(_)
WithoutAnd(s) ==
  IF s = <<>> THEN <<>>
  ELSE IF s[1] = "and" /\ Len(s) > 1 /\ s[2] = Sp THEN WithoutAnd(SubSeq(s, 3, Len(s)))
  ELSE <<s[1]>> \o WithoutAnd(Tail(s))

\* C29: for an integer n of 0 .. 999999999 the output of numberToWordsIndian
\* with the word "and" removed is the output of the recursive
\* numberToWordsIndian of part_001
C29_SameWords ==
  (Returned /\ IsInt(num) /\ Floor(num) <= 999999999) =>
    WithoutAnd(words) = numberToWordsRecursive(num)

C29_Witness ==
  /\ Returned
  /\ num = Whole(120100019)
  /\ CountTok(words, "and") = 1
  /\ numberToWordsRecursive(num)
       = <<"Twelve", Sp, "Crore", Sp, "One", Sp, "Lakh", Sp, "Nineteen">>

Vocabulary ==
  ({units[k] : k \in 1 .. 10} \cup {teens[k] : k \in 1 .. 10} \cup {tens[k] : k \in 1 .. 10}
     \cup {"Hundred", "Thousand", "Lakh", "Crore", "and", "Zero"}) \ {""}

\* C30: for every non-negative integer amount, those of 100 crore and above
\* included, the output of numberToWordsIndian is a non-empty list of words of
\* the vocabulary with one blank between two words
C30_VocabularyOnly ==
  (Returned /\ IsInt(num)) =>
    /\ words # <<>>
    /\ Len(words) % 2 = 1
    /\ \A i \in 1 .. Len(words) :
         IF i % 2 = 1 THEN words[i] \in Vocabulary ELSE words[i] = Sp

-----------------------------------------------------------------------------
(* Properties of the filters of the two views *)

Elements(s) == { s[i] : i \in 1 .. Len(s) }
Parsable(e) == DateParse(e.date) # NaN
Unparsable(E) == { e \in Elements(E) : ~Parsable(e) }

Predicates == {"search", "name", "contact", "type", "category", "amount", "date",
               "property"}

\* the predicate p has a value in the filter panel
Specified(p) ==
  CASE p = "search" -> searchTerm # <<>>
    [] p = "name" -> filterConfig.name # <<>>
    [] p = "contact" -> filterConfig.contact # <<>>
    [] p = "type" -> filterConfig.type # ALL
    [] p = "category" -> filterConfig.category # ALL
    [] p = "amount" -> filterConfig.amountMin # <<>> \/ filterConfig.amountMax # <<>>
    [] p = "date" -> filterConfig.dateStart # <<>> \/ filterConfig.dateEnd # <<>>
    [] p = "property" -> filterConfig.property # ALL

\* the entry e satisfies the predicate p; a missing bound of a range is
\* unbounded
Satisfies(e, p) ==
  CASE p = "search" ->
         \E k \in 1 .. Len(FieldStrings(e)) :
           Includes(ToLower(FieldStrings(e)[k]), ToLower(searchTerm))
    [] p = "name" -> Includes(ToLower(e.name), ToLower(filterConfig.name))
    [] p = "contact" -> Includes(ToLower(e.contact), ToLower(filterConfig.contact))
    [] p = "type" -> e.type = filterConfig.type
    [] p = "category" -> e.category = filterConfig.category
    [] p = "amount" ->
         /\ filterConfig.amountMin = <<>>
              \/ (/\ ToNumber(filterConfig.amountMin) # NaN
                  /\ e.amount >= ToNumber(filterConfig.amountMin)[1])
         /\ filterConfig.amountMax = <<>>
              \/ (/\ ToNumber(filterConfig.amountMax) # NaN
                  /\ e.amount <= ToNumber(filterConfig.amountMax)[1])
    [] p = "date" ->
         /\ Parsable(e)
         /\ filterConfig.dateStart = <<>>
              \/ (/\ DateParse(filterConfig.dateStart) # NaN
                  /\ DateParse(e.date)[1] >= DateParse(filterConfig.dateStart)[1])
         /\ filterConfig.dateEnd = <<>>
              \/ (/\ DateParse(filterConfig.dateEnd) # NaN
                  /\ DateParse(e.date)[1] <= DateParse(filterConfig.dateEnd)[1])
    [] p = "property" -> e.property = filterConfig.property

SatisfiesSpecified(e) == \A p \in Predicates : Specified(p) => Satisfies(e, p)

\* filteredEntries holds, once each, exactly the entries of the set S
HoldsExactly(S) ==
  /\ Elements(filteredEntries) = S
  /\ Len(filteredEntries) = Cardinality(S)

\* C5 (as the code has it): In the Entries view an entry is in filteredEntries
\* if and only if its date can be parsed and it satisfies every specified
\* predicate; an unset predicate passes every entry, so with all predicates
\* unset filteredEntries is the entries of the snapshot whose date can be parsed.
C5_FilterContract ==
  route = "entries" =>
    /\ HoldsExactly({ e \in Elements(entries) : Parsable(e) /\ SatisfiesSpecified(e) })
    /\ (\A p \in Predicates : ~Specified(p))
         => HoldsExactly({ e \in Elements(entries) : Parsable(e) })

\* C5 (as stated): an entry is in filteredEntries if and only if it satisfies
\* every specified predicate, so with all predicates unset filteredEntries
\* contains every entry of the snapshot.
C5_AsStated ==
  route = "entries" =>
    /\ HoldsExactly({ e \in Elements(entries) : SatisfiesSpecified(e) })
    /\ (\A p \in Predicates : ~Specified(p)) => HoldsExactly(Elements(entries))

\* two predicates are set, every date parses, and the filter keeps a part of
\* the snapshot
C5_Witness ==
  /\ route = "entries"
  /\ Cardinality({ p \in Predicates : Specified(p) }) = 2
  /\ Unparsable(entries) = {}
  /\ Len(filteredEntries) > 0
  /\ Len(filteredEntries) < Len(entries)

\* C6: An entry whose date cannot be parsed is excluded from the filtered set
\* in the Entries view and in the Dashboard view, for every filter setting,
\* and each such exclusion is reported: the computation of the filtered set
\* logs one report for each such entry.
C6_InvalidDateReported ==
  /\ route = "entries" => Unparsable(filteredEntries) = {}
  /\ route = "dashboard" => Unparsable(dashboardFiltered) = {}
  /\ Len(invalidDateLog) = Cardinality(Unparsable(entries))

\* C7: Filtering is idempotent: for the entry list and the filter setting of
\* either view (the FilterConfig and the search term of Entries, the time
\* window of the Dashboard with the same now), the filter applied to its own
\* output returns that output.
C7_FilterIdempotent ==
  /\ route = "entries" =>
       EntriesFilter(EntriesFilter(entries, searchTerm, filterConfig),
                     searchTerm, filterConfig)
         = EntriesFilter(entries, searchTerm, filterConfig)
  /\ route = "dashboard" =>
       DashboardFilter(DashboardFilter(entries, filter, customRange, now, tz),
                       filter, customRange, now, tz)
         = DashboardFilter(entries, filter, customRange, now, tz)

\* a Dashboard whose window keeps a part of several entries
C7_Witness ==
  /\ route = "dashboard"
  /\ filter = LAST_7_DAYS
  /\ Len(entries) >= 2
  /\ Len(dashboardFiltered) > 0
  /\ Len(dashboardFiltered) < Len(entries)

\* the calendar day an entry's date names, and the local day of an instant
EntryDay(e) == CivilFromDays(DateParse(e.date)[1] \div TicksPerDay)
DayNumber(day) == DaysFromCivil(day[1], day[2], day[3])
Today == LocalCivil(now, tz)

\* the date of e lies in the range the time window stands for
InWindow(e) ==
  LET t == DateParse(e.date)[1]
      day == EntryDay(e)
  IN IF filter = LAST_7_DAYS THEN now - 7 * TicksPerDay <= t /\ t <= now
     ELSE IF filter = LAST_30_DAYS THEN now - 30 * TicksPerDay <= t /\ t <= now
     ELSE IF filter = CURRENT_MONTH
     THEN /\ DayNumber(<<Today[1], Today[2], 1>>) <= DayNumber(day)
          /\ DayNumber(day) <= DayNumber(<<Today[1], Today[2], DaysInMonth(Today[1], Today[2])>>)
     ELSE IF filter = CURRENT_YEAR
     THEN DayNumber(<<Today[1], 1, 1>>) <= DayNumber(day) /\ t <= now
     ELSE IF filter = CUSTOM_RANGE
     THEN customRange.startDate <= t /\ t <= customRange.endDate
     ELSE \E y \in 2024 .. 2026 : \E m \in 1 .. 12 :
            /\ filter = <<MonthShort[m], Sp>> \o NumStr(y)
            /\ day[1] = y
            /\ day[2] = m

\* C8: Each time window of the Dashboard is a date-range predicate computed
\* from now (Last 7 Days = [now-7d, now], Last 30 Days = [now-30d, now],
\* Current Month = first to last day of now's month, Current Year = 1 January
\* of now's year to now, Custom Range = [startDate, endDate], a Month-Year
\* value = that calendar month), and an entry with a parsable date is kept if
\* and only if its date lies in the range.
C8_WindowIsDateRange ==
  route = "dashboard" =>
    \A e \in Elements(entries) :
      Parsable(e) => (e \in Elements(dashboardFiltered) <=> InWindow(e))


-----------------------------------------------------------------------------
(* Properties of the sorted and of the paged list *)

\* the order of two entries by the sort key: date and monthYear by the
\* instant of date, amount by number, any other key by the field's string
\* form in the order of localeCompare
KeyOrder(a, b, key) ==
  IF key = "date" \/ key = "monthYear" THEN DateParse(a.date)[1] - DateParse(b.date)[1]
  ELSE IF key = "amount" THEN a.amount - b.amount
  ELSE LocaleCompare(KeyString(a, key), KeyString(b, key))

PositionIn(s, e) == CHOOSE i \in 1 .. Len(s) : s[i] = e

\* out is a permutation of in, ordered by the key of sc in the direction of
\* sc, entries of equal key in their order in in
StablySorted(out, in, sc) ==
  /\ Len(out) = Len(in)
  /\ Elements(out) = Elements(in)
  /\ \A i \in 1 .. Len(out) : \A j \in (i + 1) .. Len(out) :
       /\ sc.direction = "asc" => KeyOrder(out[i], out[j], sc.key) <= 0
       /\ sc.direction = "desc" => KeyOrder(out[i], out[j], sc.key) >= 0
       /\ KeyOrder(out[i], out[j], sc.key) = 0
            => PositionIn(in, out[i]) < PositionIn(in, out[j])

RECURSIVE Concat(_, _)
Concat(pages, k) == IF k = 0 THEN <<>> ELSE Concat(pages, k - 1) \o pages[k]

\* C10: For a filtered list of n entries and a page size s in {10, 15, 20},
\* totalPages = ceil(n/s) and page p (1 <= p <= totalPages) shows exactly the
\* entries at positions (p-1)*s .. min(p*s, n)-1 of the sorted filtered list,
\* so the pages 1..totalPages concatenated are the filtered list and every
\* entry is on exactly one page.
C10_Pagination ==
  route = "entries" =>
    LET fe == filteredEntries
        n == Len(fe)
        s == entriesPerPage
        pages == [p \in 1 .. totalPages |-> PaginatedOf(fe, p, s)]
        last(p) == IF p * s < n THEN p * s ELSE n
    IN /\ s \in {10, 15, 20}
       /\ totalPages * s >= n
       /\ n > 0 => (totalPages - 1) * s < n
       /\ n = 0 => totalPages = 0
       /\ \A p \in 1 .. totalPages :
            /\ Len(pages[p]) = last(p) - (p - 1) * s
            /\ \A i \in 1 .. Len(pages[p]) : pages[p][i] = fe[(p - 1) * s + i]
       /\ Concat(pages, totalPages) = fe
       /\ \A e \in Elements(fe) :
            Cardinality({ p \in 1 .. totalPages : e \in Elements(pages[p]) }) = 1
       /\ currentPage \in 1 .. totalPages => paginatedEntries = pages[currentPage]

\* 23 entries, 10 to a page: 3 pages, and page 3 shows 3 entries
C10_Witness ==
  /\ route = "entries"
  /\ Len(filteredEntries) = 23
  /\ entriesPerPage = 10
  /\ totalPages = 3
  /\ currentPage = 3
  /\ Len(paginatedEntries) = 3

-----------------------------------------------------------------------------
(* Properties of the totals, the summary metrics and the reminders *)

\* the filtered entries of the mounted view
Filtered == IF route = "dashboard" THEN dashboardFiltered ELSE filteredEntries
\* the positions of fe whose entry has the type, and the sum of their amounts
OfType(fe, type) == { i \in 1 .. Len(fe) : fe[i].type = type }
RECURSIVE SumAmount(_, _)
SumAmount(fe, I) ==
  IF I = {} THEN 0
  ELSE LET i == CHOOSE x \in I : TRUE IN fe[i].amount + SumAmount(fe, I \ {i})

\* C11: in both views the counts of the Income and of the Expense partition
\* add up to the number of filtered entries, every filtered entry being
\* counted in exactly one of them, and an empty partition sums to 0
C11_Partition ==
  LET fe == Filtered
  IN /\ totals.income.count + totals.expense.count = Len(fe)
     /\ \A i \in 1 .. Len(fe) : (fe[i].type = INCOME) # (fe[i].type = EXPENSE)
     /\ OfType(fe, INCOME) = {} => totals.income.amount = 0
     /\ OfType(fe, EXPENSE) = {} => totals.expense.amount = 0

\* C12: netBalance is the income sum less the expense sum, totalTransactions
\* the two counts together, each average the partition's sum over its count
\* when the count is positive and 0 otherwise; no average is NaN or Infinity,
\* and for an empty filtered set netBalance and both averages are 0
C12_SummaryMetrics ==
  LET fe == Filtered
      metrics == summaryMetrics(totals)
      incomeSum == SumAmount(fe, OfType(fe, INCOME))
      expenseSum == SumAmount(fe, OfType(fe, EXPENSE))
      incomeCount == Cardinality(OfType(fe, INCOME))
      expenseCount == Cardinality(OfType(fe, EXPENSE))
      IsAverage(avg, sum, count) ==
        /\ avg # NaN /\ avg # Infinity
        /\ IF count > 0 THEN avg[2] > 0 /\ avg[1] * count = sum * avg[2]
           ELSE avg = <<0, 1>>
  IN /\ metrics.netBalance = incomeSum - expenseSum
     /\ metrics.totalTransactions = incomeCount + expenseCount
     /\ IsAverage(metrics.avgIncome, incomeSum, incomeCount)
     /\ IsAverage(metrics.avgExpense, expenseSum, expenseCount)
     /\ fe = <<>> => /\ metrics.netBalance = 0
                     /\ metrics.avgIncome = <<0, 1>>
                     /\ metrics.avgExpense = <<0, 1>>
\* the Dashboard shows two Income entries whose average is not whole, and
\* no Expense entry
C12_Witness ==
  /\ route = "dashboard"
  /\ Len(dashboardFiltered) = 2
  /\ summaryMetrics(totals).avgIncome = <<15, 2>>
  /\ summaryMetrics(totals).avgExpense = <<0, 1>>
  /\ totals.expense.count = 0

\* the days from today to the entry's renew date, rounded up
DaysToRenew(e, day) ==
  LET diff == DateParse(e.renewDate)[1] - DateParse(day)[1]
  IN IF diff % TicksPerDay = 0 THEN diff \div TicksPerDay ELSE diff \div TicksPerDay + 1
\* the entry has a reminder set and a renew date that parses
Reminding(e) == e.renewDateReminder > 0 /\ DateParse(e.renewDate) # NaN
\* the entry as the reminder list shows it
WithStatus(e, status) ==
  [ f \in DOMAIN e \cup {"status"} |-> IF f = "status" THEN status ELSE e[f] ]
\* the status the state machine gives, "NotYetDue" for an entry not listed
StatusOn(e, day) ==
  IF DaysToRenew(e, day) = 0 THEN "Due"
  ELSE IF DaysToRenew(e, day) < 0 THEN "Past Due"
  ELSE IF DaysToRenew(e, day) <= e.renewDateReminder THEN "Approaching"
  ELSE "NotYetDue"

\* C13: the reminder list holds exactly the entries of the snapshot with
\* renewDateReminder > 0, a parsable renewDate and daysUntilRenew at most
\* renewDateReminder, each once and with status Due for 0 days, Past Due for
\* fewer, Approaching for more; no other entry is listed
C13_ReminderList ==
  route = "dashboard" =>
    LET rows == reminderEntries
        Listed == { i \in 1 .. Len(entries) :
                      /\ Reminding(entries[i])
                      /\ DaysToRenew(entries[i], today) <= entries[i].renewDateReminder }
    IN /\ Len(rows) = Cardinality(Listed)
       /\ \A i \in Listed : \E k \in 1 .. Len(rows) :
            rows[k] = WithStatus(entries[i], StatusOn(entries[i], today))
       /\ \A k \in 1 .. Len(rows) : \E i \in Listed : rows[k].id = entries[i].id
       /\ \A k \in 1 .. Len(rows) : rows[k].status \in {"Due", "Past Due", "Approaching"}
\* of two entries with a reminder and a parsable renew date, one is listed
\* as Approaching and the other, more days away than its reminder, is not
C13_Witness ==
  /\ route = "dashboard"
  /\ Len(entries) = 2
  /\ \A i \in 1 .. 2 : Reminding(entries[i])
  /\ Len(reminderEntries) = 1
  /\ reminderEntries[1].status = "Approaching"
  /\ \E i \in 1 .. 2 : DaysToRenew(entries[i], today) > entries[i].renewDateReminder

\* C14: for an entry with a reminder and a parsable renew date that stays in
\* the snapshot while today advances, the status never moves back along
\* NotYetDue, Approaching, Due, Past Due; Past Due stays Past Due; and the
\* status is Due on the renew date and on no other day
C14_StatusMonotone ==
  [][ (route = "dashboard" /\ route' = "dashboard"
         /\ DateParse(today')[1] = DateParse(today)[1] + TicksPerDay) =>
      LET Rank == [ s \in {"NotYetDue", "Approaching", "Due", "Past Due"} |->
                      CASE s = "NotYetDue" -> 0 [] s = "Approaching" -> 1
                        [] s = "Due" -> 2 [] s = "Past Due" -> 3 ]
          Shown(rows, e) ==
            IF \E k \in 1 .. Len(rows) : rows[k].id = e.id
            THEN (CHOOSE r \in { rows[k] : k \in 1 .. Len(rows) } : r.id = e.id).status
            ELSE "NotYetDue"
      IN \A rowsBefore \in {reminderEntries} :
         \A rowsAfter \in {ReminderEntriesOf(entries', today')} :
         \A i \in 1 .. Len(entries) :
           (Reminding(entries[i]) /\ \E j \in 1 .. Len(entries') : entries'[j] = entries[i]) =>
             LET before == Shown(rowsBefore, entries[i])
                 after == Shown(rowsAfter, entries[i])
             IN /\ Rank[after] >= Rank[before]
                /\ before = "Past Due" => after = "Past Due"
                /\ (before = "Due") = (today = entries[i].renewDate)
                /\ (after = "Due") = (today' = entries[i].renewDate)
    ]_vars
\* an entry that was Approaching when the Dashboard last filtered is Due now,
\* on a later day
C14_Witness ==
  /\ route = "dashboard"
  /\ DateParse(today)[1] > now
  /\ \E k \in 1 .. Len(reminderEntries) :
       /\ reminderEntries[k].status = "Due"
       /\ StatusOn(reminderEntries[k], ToISODate(now)) = "Approaching"

\* C20: of two consecutive rows of the reminder list the first one's renew
\* date is not later than the second one's, whatever the rows' statuses
C20_RemindersAscending ==
  LET rows == reminderEntries
  IN \A k \in 1 .. Len(rows) - 1 :
       DateParse(rows[k].renewDate)[1] <= DateParse(rows[k + 1].renewDate)[1]
\* two rows of different status, in the order of their renew dates and
\* against the order of the snapshot
C20_Witness ==
  /\ Len(reminderEntries) = 2
  /\ reminderEntries[1].id = entries[2].id
  /\ reminderEntries[2].id = entries[1].id
  /\ reminderEntries[1].status # reminderEntries[2].status
  /\ reminderEntries[1].renewDate # reminderEntries[2].renewDate

\* C16: the income chart and the expense chart have one row for each
\* property that occurs in the filtered entries, whatever the type of its
\* entries, and no other row; a row's total is the sum of the amounts of the
\* filtered entries of that property and of the chart's type, 0 when there
\* is none
C16_GroupByProperty ==
  route = "dashboard" =>
    \A fe \in {dashboardFiltered} : \A type \in {INCOME, EXPENSE} :
      \A rows \in {GroupByProperty(fe, type)} :
        /\ { rows[k].property : k \in 1 .. Len(rows) }
             = { fe[i].property : i \in 1 .. Len(fe) }
        /\ \A k, l \in 1 .. Len(rows) : rows[k].property = rows[l].property => k = l
        /\ \A k \in 1 .. Len(rows) :
             rows[k].total =
               SumAmount(fe, { i \in 1 .. Len(fe) :
                                 fe[i].property = rows[k].property /\ fe[i].type = type })
\* two filtered entries, an Income of one property and an Expense of another:
\* the income chart has a row for each, the second one with total 0
C16_Witness ==
  /\ route = "dashboard"
  /\ Len(dashboardFiltered) = 2
  /\ dashboardFiltered[1].type = INCOME /\ dashboardFiltered[2].type = EXPENSE
  /\ Len(GroupByProperty(dashboardFiltered, INCOME)) = 2
  /\ GroupByProperty(dashboardFiltered, INCOME)[1].total > 0
  /\ GroupByProperty(dashboardFiltered, INCOME)[2].total = 0

\* the value of the entry that each column of the export stands for
ColumnValues(e, zone) ==
  << e.id, e.date, e.type, e.category, NumStr(e.amount),
     numberToWordsIndian(Whole(e.amount)), e.name, e.contact,
     IF DateParse(e.date) = NaN THEN <<"Invalid Date">>
     ELSE MonthYearLabel(DateParse(e.date)[1], zone),
     e.renewDate, NumStr(e.renewDateReminder), e.property >>
\* the cell is the value between two double quotes, with every double quote
\* of the value written twice
QuotedCell(cell, value) ==
  LET Start(i) == i + Cardinality({ k \in 1 .. (i - 1) : value[k] = DQ })
      n == Len(value) + Cardinality({ k \in 1 .. Len(value) : value[k] = DQ })
      doubled == [ j \in 1 .. n |->
                   value[CHOOSE i \in 1 .. Len(value) :
                           Start(i) <= j /\ j <= Start(i) + (IF value[i] = DQ THEN 1 ELSE 0)] ]
  IN cell = <<DQ>> \o doubled \o <<DQ>>

\* C17: after the header line the export has one line for each filtered
\* entry, in the order of the filtered entries, with the twelve columns id,
\* date, type, category, amount, amountInWords, name, contact, monthYear,
\* renewDate, renewDateReminder, property; every cell is its value between
\* double quotes with every double quote of the value written twice
C17_CsvExport ==
  route = "dashboard" =>
    \A fe \in {dashboardFiltered} : \A lines \in {csvContent(fe, tz)} :
      /\ Len(lines) = Len(fe) + 1
      /\ lines[1] = << <<"id">>, <<"date">>, <<"type">>, <<"category">>, <<"amount">>,
                       <<"amountInWords">>, <<"name">>, <<"contact">>, <<"monthYear">>,
                       <<"renewDate">>, <<"renewDateReminder">>, <<"property">> >>
      /\ \A i \in 1 .. Len(fe) :
           /\ Len(lines[i + 1]) = 12
           /\ \A c \in 1 .. 12 : QuotedCell(lines[i + 1][c], ColumnValues(fe[i], tz)[c])

-----------------------------------------------------------------------------
(* Properties of the snapshot listeners and of the CSV import *)

\* the reminder that a stored number stands for: itself when it is one of
\* 0, 5, 10 and 15, and 0 otherwise; and the one a cell of a CSV row stands
\* for: the number of the set that it spells, and 0 when it spells none
ReminderFor(value) == IF value \in {0, 5, 10, 15} THEN value ELSE 0
ReminderForCell(cell) ==
  IF \E v \in {0, 5, 10, 15} : cell = NumStr(v)
  THEN CHOOSE v \in {0, 5, 10, 15} : cell = NumStr(v)
  ELSE 0

\* C15: every entry in the state of a view has renewDateReminder in
\* {0, 5, 10, 15}; every document of the snapshot is kept as an entry, with
\* its stored reminder when that is in the set and with 0 when it is not;
\* and every row of the import is written, with the reminder of its cell when
\* that is in the set and with 0 when it is not
C15_ReminderDomain ==
  /\ \A i \in 1 .. Len(entries) : entries[i].renewDateReminder \in {0, 5, 10, 15}
  /\ Len(entries) = Cardinality(snapshot)
  /\ \A d \in snapshot : \E i \in 1 .. Len(entries) :
       /\ entries[i].id = d.id
       /\ entries[i].renewDateReminder = ReminderFor(d.renewDateReminder)
  /\ \A row \in CsvRows : \E d \in StorePool :
       /\ d.id = row.docId
       /\ d.renewDateReminder = ReminderForCell(row.renewDateReminder)
\* a view holds the entry of an imported row whose cell was 7 and the entry
\* of a document stored with a reminder of 7, both with reminder 0
C15_Witness ==
  /\ Len(entries) = 2
  /\ \E row \in CsvRows : \E i \in 1 .. 2 :
       /\ row.renewDateReminder = <<"7">>
       /\ entries[i].id = row.docId
       /\ entries[i].renewDateReminder = 0
  /\ \E d \in snapshot \cap BoardPool : \E i \in 1 .. 2 :
       /\ d.renewDateReminder = 7
       /\ entries[i].id = d.id
       /\ entries[i].renewDateReminder = 0

-----------------------------------------------------------------------------
(* Properties of the PDF templates *)

SupportedTokens ==
  { "{{id}}", "{{name}}", "{{contact}}", "{{type}}", "{{category}}", "{{amount}}",
    "{{amountInWords}}", "{{date}}", "{{monthyear}}", "{{renewDate}}",
    "{{renewDateReminder}}", "{{property}}", "{{currency}}" }

OtherTokens(t) == SelectSeq(t, LAMBDA piece : piece = "{{signature}}")

\* C18: in the text and in the file name of a generated document none of the
\* thirteen supported tokens is left (the entry's values holding no token),
\* and the tokens that are not supported are those of the templates
C18_TemplateSubstitution ==
  pdf.filename # <<>> =>
    /\ \A k \in 1 .. Len(pdf.text) : pdf.text[k] \notin SupportedTokens
    /\ \A k \in 1 .. Len(pdf.filename) : pdf.filename[k] \notin SupportedTokens
    /\ \E settings \in SettingsPool :
         /\ OtherTokens(pdf.text) = OtherTokens(settings.pdfTemplate)
         /\ OtherTokens(pdf.filename) = OtherTokens(settings.pdfFilename)

-----------------------------------------------------------------------------
(* Properties of the pager under snapshots *)

\* C22: in the Entries view, whenever the filtered list is not empty the
\* current page is one of 1 .. totalPages and shows at least one entry, also
\* after a snapshot that removes entries; and a page change alone takes the
\* view to a page of 1 .. totalPages only (a request outside is ignored)
C22_PageInRange ==
  /\ [](((route = "entries") /\ (filteredEntries # <<>>)) =>
         /\ currentPage >= 1
         /\ currentPage <= totalPages
         /\ paginatedEntries # <<>>)
  /\ [][(UNCHANGED <<entries, searchTerm, filterConfig, sortConfig, entriesPerPage>>
          /\ currentPage' # currentPage)
           => (currentPage' >= 1 /\ currentPage' <= totalPages)]_vars

-----------------------------------------------------------------------------
(* Properties of the calls of the service layer *)

DeleteEntryRuns == del.pc \in {"getDoc", "deleteDoc", "timer"}
DeleteEntryEnded ==
  del.pc = "idle" /\ del.end \in {"returned", "No document to delete",
                                   "Failed to delete entry after 3 attempts"}
AllErrors(log) == \A k \in 1 .. Len(log) : log[k] = "error"
Front(log) == SubSeq(log, 1, Len(log) - 1)

\* C23: deleteEntry makes at most 3 attempts and ends: it returns at the first
\* attempt that deletes, throws 'No document to delete' at the first attempt
\* that finds no document, retries after any other failure and throws
\* 'Failed to delete entry after 3 attempts' when the third attempt failed
C23_DeleteEntry ==
  /\ [](/\ del.attempt <= maxRetries
        /\ DeleteEntryRuns =>
             /\ AllErrors(del.log)
             /\ Len(del.log) = (IF del.pc = "timer" THEN del.attempt ELSE del.attempt - 1)
        /\ DeleteEntryEnded =>
             /\ Len(del.log) = del.attempt
             /\ AllErrors(Front(del.log))
             /\ del.end = "returned" <=> del.log[del.attempt] = "deleted"
             /\ del.end = "No document to delete" <=> del.log[del.attempt] = "missing"
             /\ del.end = "Failed to delete entry after 3 attempts"
                  <=> (del.attempt = maxRetries /\ del.log[del.attempt] = "error")
             /\ del.end = "returned" => del.id \notin entriesCol)
  /\ (DeleteEntryRuns ~> DeleteEntryEnded)

C23_Witness ==
  /\ DeleteEntryEnded
  /\ del.end = "returned"
  /\ del.log = <<"error", "error", "deleted">>

\* a call of getSettings stores the default settings in this step
GetSettingsWrites == \E c \in Clients : gs[c].pc = "setDoc" /\ gs'[c].pc = "returned"

\* C24: getSettings stores the default settings only for a settings document
\* that does not exist, and never over settings that a saveSettings has
\* stored: once a saveSettings has completed no getSettings writes
C24_DefaultsNeverReplace ==
  [][GetSettingsWrites => saves = 0]_vars

\* C27: a submit of the settings form calls saveSettings at most twice; it
\* puts the new settings in the component and in localStorage when a call
\* succeeded and leaves both alone when both calls failed; isLoading is false
\* when it ends
C27_SettingsSubmit ==
  /\ [](save.calls <= 2)
  /\ [][(save' # save /\ save.pc # "idle") =>
          IF save'.pc # "idle" THEN UNCHANGED <<settingsState, localSettings>>
          ELSE /\ ~isLoading'
               /\ IF save'.end = "saved"
                  THEN /\ settingsDoc' = save.data
                       /\ settingsState' = save.data
                       /\ localSettings' = save.data
                  ELSE /\ save'.calls = 2
                       /\ UNCHANGED <<settingsDoc, settingsState, localSettings>>]_vars

C27_Witness ==
  /\ save.pc = "idle"
  /\ save.end = "failed"
  /\ save.calls = 2
  /\ settingsState = <<DefaultSettings>>
  /\ save.data # settingsState
  /\ ~isLoading

\* C28: when resetEntries has succeeded, no document that its getDocs
\* returned is left, the documents left were added after that read (none,
\* when no client has added one since), and no step of the call writes the
\* settings document
C28_ResetEntries ==
  /\ []((rst.end = "success") =>
         /\ rst.read \cap entriesCol = {}
         /\ entriesCol \subseteq (usedIds \ rst.known)
         /\ (usedIds = rst.known) => (entriesCol = {}))
  /\ [][(rst' # rst) => (settingsDoc' = settingsDoc)]_vars

C28_Witness ==
  /\ rst.end = "success"
  /\ Cardinality(rst.read) = 2
  /\ Cardinality(entriesCol) = 1
  /\ settingsDoc = <<DefaultSettings>>

\* the row k of the file has failed on two attempts of addDoc
RowFailedTwice(k) ==
  \E i, j \in DOMAIN imp.log :
    i < j /\ imp.log[i] = <<k, "error">> /\ imp.log[j] = <<k, "error">>

C21_SameToday ==
  (route = "dashboard") =>
    \A list \in {reminderEntries} :
      \A i \in DOMAIN entries :
        (getRowColor(entries[i]) # "")
          <=> (\E j \in DOMAIN list : list[j].id = entries[i].id)

\* C25: the entry being edited is among the entries of the latest snapshot,
\* so that every call of updateEntry is made for an entry that the latest
\* snapshot held; a snapshot without that entry closes the dialog and
\* clears editingEntry; a call that ends with 'No document to update'
\* leaves the dialog closed and editingEntry cleared; and no step of a call
\* of updateEntry adds a document
C25_EditedEntryListed ==
  /\ []((editingEntry # <<>>) => (editingEntry[1].id \in EntryIds))
  /\ []((sub.pc \in {"getDoc", "updateDoc"}) => sub.listed)
  /\ [][(/\ editingEntry # <<>>
          /\ snapshot' # snapshot
          /\ \A d \in snapshot' : d.id # editingEntry[1].id)
         => (~isDialogOpen' /\ editingEntry' = <<>>)]_vars
  /\ [][(sub' # sub /\ sub'.end = "No document to update")
         => (~isDialogOpen' /\ editingEntry' = <<>>)]_vars
  /\ [][(sub' # sub /\ sub.pc \in {"getDoc", "updateDoc"})
         => (entriesCol' = entriesCol /\ usedIds' = usedIds)]_vars

C25_Witness ==
  /\ sub.end = "No document to update"
  /\ sub.listed
  /\ sub.id \in EntryIds
  /\ sub.id \notin entriesCol
  /\ ~isDialogOpen /\ editingEntry = <<>>

====
